---- MODULE Spec2Model ----
(***************************************************************************)
(* EngageRunner: the engagement orchestration pipeline.                    *)
(*                                                                         *)
(*   Spec    engage_with_scenario / _process_video_comments (cli.py)       *)
(*           driving EngagementState (utils/state.py) over a state file,   *)
(*           one or more runs in sequence.                                 *)
(*   SpecRL  RateLimiter.wait_if_needed (utils/safety.py) called by a      *)
(*           single caller, time in whole seconds.                         *)
(*                                                                         *)
(*   SpecLedger    EngagementState alone over a state file holding any     *)
(*           document: construct, mark, save, construct again.             *)
(*   SpecRun       engage_with_scenario from load_config to its return,    *)
(*           the work on a post being one step.                            *)
(*   SpecTime      one call of parse_relative_time (utils/time_parser.py), *)
(*           strings as sequences of characters.                           *)
(*   SpecDiscover  _get_discovery_params, list_videos and the truncation   *)
(*           of engage_with_scenario down to the per-post loop.            *)
(*                                                                         *)
(* In Spec the call of wait_if_needed is recorded in the run's event log;  *)
(* what the call does to the limiter is the subject of SpecRL.             *)
(*                                                                         *)
(* Comment ids are small integers.  The state file is absent, a complete   *)
(* JSON document, or the truncated remainder of an interrupted write.      *)
(* In SpecRL the clock never goes back and a sleep lasts at least as long  *)
(* as asked; jitter is drawn in whole seconds.                             *)
(***************************************************************************)
EXTENDS Integers, Sequences, FiniteSets, TLC

(* ------------------------------ bounds -------------------------------- *)
NumIds == 2
MaxPosts == 2
MaxComments == 2
MaxActions == 2
MaxRuns == 2
MaxFaults == 1
MaxFails == 1
MaxCalls == 4
MaxN == 2

(* ------------------------- program constants -------------------------- *)
WindowSecs == 60

(* ------------------------------ inputs -------------------------------- *)
Ids == 1..NumIds
ActionTypes == {"like", "heart", "reply"}
Gaps == {30, 59, 60}
DelayRanges == {<<0, 0>>, <<0, 1>>, <<1, 2>>}
Lags == {0, 1}

SeqsUpTo(S, n) == UNION {[1..k -> S] : k \in 0..n}

NoUrlPost == [url |-> FALSE, comments |-> <<>>]
Posts == {[url |-> TRUE, comments |-> c] : c \in SeqsUpTo(Ids, MaxComments)} \cup {NoUrlPost}
Contents == SeqsUpTo(Posts, MaxPosts)
Scenarios == SeqsUpTo(ActionTypes, MaxActions)

AbsentFile == [kind |-> "absent", videos |-> {}, comments |-> {}]
PartialFile == [kind |-> "partial", videos |-> {}, comments |-> {}]
JsonFile(vids, cms) == [kind |-> "json", videos |-> vids, comments |-> cms]
InitFiles == {AbsentFile} \cup {JsonFile({}, S) : S \in SUBSET Ids}

VARIABLES
  content,             \* what the platform shows: the posts and their comment ids
  actions,             \* scenario.actions, the action types in order
  file,                \* the state file on disk
  run,                 \* number of runs started
  pc,                  \* position of the run
  dry_run,
  processed_videos,    \* EngagementState.processed_videos
  processed_comments,  \* EngagementState.processed_comments
  videos,              \* the list the per-post loop iterates
  vi,                  \* 1-based index of the post
  comments,            \* result of read_comments for the post
  ai,                  \* 1-based index of the action spec
  ci,                  \* 1-based index of the comment (idx of enumerate)
  processed,           \* per-post counter
  total_processed,
  success,             \* result of the provider call awaiting its record step
  error,               \* exception propagated to the caller of the run
  reported,            \* the summary count printed, -1 when none was printed
  log,                 \* events of the current run, in order
  savedBefore,         \* ids an earlier run marked and wrote to the file
  startFile,           \* the file when the run started
  startComments,       \* processed_comments right after the load of the run
  prior,               \* the run before this one: dry_run, the count it reported, the ledger it started with
  faults,              \* I/O faults injected so far
  fails,               \* provider failures injected so far
  rl,                  \* the RateLimiter object
  now,                 \* the clock, seconds
  recorded,            \* every timestamp wait_if_needed recorded, in order
  lastCall,            \* what the last wait_if_needed call saw and slept
  ticked,              \* the caller already spent time since the last call
  store,               \* SpecLedger: the state file as the document it holds
  lpc,                 \* SpecLedger: what last happened to the EngagementState object
  raised,              \* SpecLedger: exception the last constructor call let out
  saved,               \* SpecLedger: the sets of the object at its last completed save
  inv,                 \* SpecRun: what the configuration holds for the names given
  rpc,                 \* SpecRun: position in engage_with_scenario
  trace,               \* SpecRun: the calls made so far, in order
  exc,                 \* SpecRun: the exception in flight or propagated
  browser,             \* SpecRun: the local browser is set
  todo,                \* SpecRun: posts the loop has yet to process
  relative_str,        \* SpecTime: the argument of parse_relative_time, its characters
  given,               \* SpecTime: the amount and unit the string was written from
  clock,               \* SpecTime, SpecDiscover: the instant datetime.now(UTC) returns
  parsed,              \* SpecTime: what the call returned or raised
  later,               \* SpecTime: the instant datetime.now(UTC) returns at a second call
  again,               \* SpecTime: what a second call on the same string returned or raised
  discovery,           \* SpecDiscover: scenario.discovery, method and limit
  page,                \* SpecDiscover: the 'posted' text of the items on the channel page
  reached,             \* SpecDiscover: the videos the per-post loop iterates, as item numbers
  visited,             \* SpecDiscover: the items _process_video_comments was called for
  dpc,                 \* SpecDiscover: position
  liking,              \* SpecLike: the call like_comment(comment_index) and the page it meets
  kpc,                 \* SpecLike: position in like_comment
  returned,            \* SpecLike: what the call returned
  clicked,             \* SpecLike: the click on the like button completed
  failed,              \* SpecLike: a page operation of the call raised
  port,                \* SpecCtl: who answers on the CDP port: nobody, another Chrome, the Chrome this controller spawned
  process,             \* SpecCtl: ChromeController._process: None, or the state of the child it refers to
  is_external_process, \* SpecCtl: ChromeController._is_external_process
  cpc,                 \* SpecCtl: position inside the call at hand
  polls,               \* SpecCtl: iterations of the wait loop of _launch_chrome done so far
  ops,                 \* SpecCtl: the calls made on the controller and what they did to processes, in order
  ctl_calls,           \* SpecCtl: number of calls made on the controller
  ret,                 \* SpecCtl: what the last call returned or raised
  models_to_try,       \* SpecLLM: RetryLLM.models_to_try, each model as whether an instance of it can be created
  current_model_index, \* SpecLLM: RetryLLM.current_model_index, 0-based as in the code
  llm,                 \* SpecLLM: RetryLLM.llm, as the 0-based index of the model the instance was created for
  mpc,                 \* SpecLLM: position: before __init__, between calls, inside try_next_model
  mret,                \* SpecLLM: what the last call returned or raised
  tried,               \* SpecLLM: the indices _create_llm_instance was called for, in order
  entry,               \* SpecLLM: current_model_index and llm when the call at hand was made
  llm_calls,           \* SpecLLM: number of try_next_model calls made
  pages,               \* SpecRead: the posts to process: URL kind, whether the Shorts panel opens, the comment threads on the page
  max_comments,        \* SpecRead: scenario.max_comments_per_video
  pi,                  \* SpecRead: 1-based index of the post at hand
  rdpc,                \* SpecRead: position in read_comments and the comment loop
  gotos,               \* SpecRead: the page.goto calls made, in order
  comment_data,        \* SpecRead: what the page script returned for the post at hand
  read_out,            \* SpecRead: the lists read_comments returned, one per post done
  li,                  \* SpecRead: idx of enumerate(comments, 1)
  likes,               \* SpecRead: what the comment loop did: like_comment(idx) calls and skips, in order
  ledger_ids           \* SpecRead: processed_comments of the EngagementState

orchVars == <<content, actions, file, run, pc, dry_run, processed_videos,
              processed_comments, videos, vi, comments, ai, ci, processed,
              total_processed, success, error, reported, log, savedBefore,
              startFile, startComments, prior, faults, fails>>
rlVars == <<rl, now, recorded, lastCall, ticked>>
ledVars == <<store, lpc, raised, saved>>
runVars == <<inv, rpc, trace, exc, browser, todo>>
timeVars == <<relative_str, given, clock, parsed, later, again>>
discVars == <<discovery, page, reached, visited, dpc>>
likeVars == <<liking, kpc, returned, clicked, failed>>
ctlVars == <<port, process, is_external_process, cpc, polls, ops, ctl_calls, ret>>
llmVars == <<models_to_try, current_model_index, llm, mpc, mret, tried, entry, llm_calls>>
readVars == <<pages, max_comments, pi, rdpc, gotos, comment_data, read_out, li, likes, ledger_ids>>
extVars == <<ledVars, runVars, timeVars, discVars, likeVars, ctlVars, llmVars, readVars>>
vars == <<orchVars, rlVars, extVars>>

(* ----------------------- EngagementState (state.py) ------------------- *)
\* _load: absent file -> empty sets; JSONDecodeError / OSError -> logged, sets stay empty
LoadComments(f) == IF f.kind = "json" THEN f.comments ELSE {}
LoadVideos(f) == IF f.kind = "json" THEN f.videos ELSE {}

is_comment_processed_never(S, c) == FALSE
is_comment_processed(S, c) == c \in S
mark_comment_processed(S, c) == S \cup {c}

\* save: "ok" the dump completed; "open_fail" mkdir/open raised OSError before
\* the file was touched; "write_fail" the file was opened with "w" (truncated)
\* and the dump raised OSError
SaveOutcomes == {"ok", "open_fail", "write_fail"}
SaveFile(f, vids, cms, o) ==
  CASE o = "ok" -> JsonFile(vids, cms)
    [] o = "open_fail" -> f
    [] o = "write_fail" -> PartialFile

\* save catches OSError and logs it: nothing reaches the caller
SaveRaises(o) == FALSE

(* ----------------------------- cli.py --------------------------------- *)
\* the provider method _process_video_comments calls for an action type
DispatchMethod(t) == "like_comment"

Ev(e, id, idx, meth, act, res) ==
  [ev |-> e, id |-> id, idx |-> idx, meth |-> meth, act |-> act, res |-> res]

SavedInLog(l) ==
  {l[i].id : i \in {j \in 1..Len(l) : l[j].ev = "save" /\ l[j].res = "ok"}}

NoSets == [videos |-> {}, comments |-> {}]
LedIdle == store = "none" /\ lpc = "none" /\ raised = "none" /\ saved = NoSets
NotParsed == [raised |-> "pending", at |-> [days |-> 0, secs |-> 0]]
TimeIdle ==
  /\ relative_str = <<>> /\ given = "none" /\ clock = "none" /\ parsed = NotParsed
  /\ later = "none" /\ again = NotParsed
DiscIdle == discovery = "none" /\ page = <<>> /\ reached = <<>> /\ visited = <<>> /\ dpc = "none"
RunIdle ==
  /\ inv = "none"
  /\ rpc = "none"
  /\ trace = <<>>
  /\ exc = "none"
  /\ browser = FALSE
  /\ todo = 0

RLIdle == [actions_per_minute |-> 1, min_delay |-> 0, max_delay |-> 0, action_times |-> <<>>, err |-> "none"]
NoCall == [now0 |-> 0, sleeps |-> <<>>]

\* the variables of the orchestrator at rest, for the specifications that do
\* not run it
LikeIdle ==
  /\ liking = "none" /\ kpc = "none" /\ returned = "none" /\ clicked = FALSE /\ failed = FALSE

CtlIdle ==
  /\ port = "none" /\ process = "none" /\ is_external_process = FALSE /\ cpc = "none"
  /\ polls = 0 /\ ops = <<>> /\ ctl_calls = 0 /\ ret = "none"

LLMIdle ==
  /\ models_to_try = <<>> /\ current_model_index = 0 /\ llm = -1 /\ mpc = "none" /\ mret = "none"
  /\ tried = <<>> /\ entry = "none" /\ llm_calls = 0

ReadIdle ==
  /\ pages = <<>> /\ max_comments = 0 /\ pi = 1 /\ rdpc = "none" /\ gotos = <<>> /\ comment_data = <<>>
  /\ read_out = <<>> /\ li = 1 /\ likes = <<>> /\ ledger_ids = {}

\* no run came before
NoPrior == [dry_run |-> FALSE, reported |-> -1, comments |-> {}]

OrchPinned(p) ==
  /\ content = <<>>
  /\ actions = <<>>
  /\ file = AbsentFile
  /\ run = 0
  /\ pc = p
  /\ dry_run = FALSE
  /\ processed_videos = {}
  /\ processed_comments = {}
  /\ videos = <<>>
  /\ vi = 1
  /\ comments = <<>>
  /\ ai = 1
  /\ ci = 1
  /\ processed = 0
  /\ total_processed = 0
  /\ success = FALSE
  /\ error = "none"
  /\ reported = -1
  /\ log = <<>>
  /\ savedBefore = {}
  /\ startFile = AbsentFile
  /\ startComments = {}
  /\ prior = NoPrior
  /\ faults = 0
  /\ fails = 0

RLPinned ==
  /\ rl = RLIdle
  /\ now = 0
  /\ recorded = <<>>
  /\ lastCall = NoCall
  /\ ticked = FALSE

Init ==
  /\ content \in Contents
  /\ actions \in Scenarios
  /\ file \in InitFiles
  /\ run = 0
  /\ pc = "idle"
  /\ dry_run = FALSE
  /\ processed_videos = {}
  /\ processed_comments = {}
  /\ videos = <<>>
  /\ vi = 1
  /\ comments = <<>>
  /\ ai = 1
  /\ ci = 1
  /\ processed = 0
  /\ total_processed = 0
  /\ success = FALSE
  /\ error = "none"
  /\ reported = -1
  /\ log = <<>>
  /\ savedBefore = {}
  /\ startFile = file
  /\ startComments = {}
  /\ prior = NoPrior
  /\ faults = 0
  /\ fails = 0
  /\ rl = RLIdle
  /\ now = 0
  /\ recorded = <<>>
  /\ lastCall = NoCall
  /\ ticked = FALSE
  /\ LedIdle
  /\ ReadIdle
  /\ LLMIdle
  /\ CtlIdle
  /\ LikeIdle
  /\ RunIdle
  /\ TimeIdle
  /\ DiscIdle

\* engage_with_scenario up to the try block: EngagementState() loads the file
StartRun(d) ==
  /\ pc = "idle"
  /\ run < MaxRuns
  /\ run' = run + 1
  /\ dry_run' = d
  /\ processed_videos' = LoadVideos(file)
  /\ processed_comments' = LoadComments(file)
  /\ startFile' = file
  /\ startComments' = LoadComments(file)
  /\ prior' = [dry_run |-> dry_run, reported |-> reported, comments |-> startComments]
  /\ savedBefore' = savedBefore \cup SavedInLog(log)
  /\ log' = <<>>
  /\ error' = "none"
  /\ reported' = -1
  /\ total_processed' = 0
  /\ videos' = <<>>
  /\ vi' = 1
  /\ comments' = <<>>
  /\ ai' = 1
  /\ ci' = 1
  /\ processed' = 0
  /\ success' = FALSE
  /\ pc' = "discover"
  /\ UNCHANGED <<content, actions, file, faults, fails, rlVars, extVars>>

\* list_videos; an empty result ends the run without a summary
ListVideos ==
  /\ pc = "discover"
  /\ videos' = content
  /\ vi' = 1
  /\ total_processed' = 0
  /\ pc' = IF content = <<>> THEN "idle" ELSE "post"
  /\ UNCHANGED <<content, actions, file, run, dry_run, processed_videos,
                 processed_comments, comments, ai, ci, processed, success, error,
                 reported, log, savedBefore, startFile, startComments, prior, faults,
                 fails, rlVars, extVars>>

\* list_videos raises (page.goto times out): nothing catches it, the finally
\* block runs and the exception leaves engage_with_scenario
ListVideosRaises ==
  /\ pc = "discover"
  /\ fails < MaxFails
  /\ fails' = fails + 1
  /\ error' = "PlaywrightError"
  /\ pc' = "idle"
  /\ UNCHANGED <<content, actions, file, run, dry_run, processed_videos,
                 processed_comments, videos, vi, comments, ai, ci, processed,
                 total_processed, success, reported, log, savedBefore, startFile,
                 startComments, prior, faults, rlVars, extVars>>

\* SkipNoUrl that gives up the remaining posts
SkipNoUrl_stops ==
  /\ pc = "post"
  /\ vi <= Len(videos)
  /\ ~videos[vi].url
  /\ vi' = Len(videos) + 1
  /\ UNCHANGED <<content, actions, file, run, pc, dry_run, processed_videos,
                 processed_comments, videos, comments, ai, ci, processed,
                 total_processed, success, error, reported, log, savedBefore,
                 startFile, startComments, prior, faults, fails, rlVars, extVars>>

\* _process_video_comments: a post without url returns 0
SkipNoUrl ==
  /\ pc = "post"
  /\ vi <= Len(videos)
  /\ ~videos[vi].url
  /\ vi' = vi + 1
  /\ UNCHANGED <<content, actions, file, run, pc, dry_run, processed_videos,
                 processed_comments, videos, comments, ai, ci, processed,
                 total_processed, success, error, reported, log, savedBefore,
                 startFile, startComments, prior, faults, fails, rlVars, extVars>>

\* read_comments; no comments returns 0
ReadComments ==
  /\ pc = "post"
  /\ vi <= Len(videos)
  /\ videos[vi].url
  /\ comments' = videos[vi].comments
  /\ log' = Append(log, Ev("read", 0, vi, "read_comments", "-", "-"))
  /\ IF videos[vi].comments = <<>>
       THEN /\ vi' = vi + 1
            /\ UNCHANGED <<pc, ai, ci, processed>>
       ELSE /\ processed' = 0
            /\ ai' = 1
            /\ ci' = 1
            /\ pc' = "comment"
            /\ UNCHANGED vi
  /\ UNCHANGED <<content, actions, file, run, dry_run, processed_videos,
                 processed_comments, videos, total_processed, success, error,
                 reported, savedBefore, startFile, startComments, prior, faults,
                 fails, rlVars, extVars>>

\* the position inside the two loops of _process_video_comments
\* read_comments raises (navigate_to_url times out): the exception passes
\* through _process_video_comments and engage_with_scenario
ReadCommentsRaises ==
  /\ pc = "post"
  /\ vi <= Len(videos)
  /\ videos[vi].url
  /\ fails < MaxFails
  /\ fails' = fails + 1
  /\ log' = Append(log, Ev("read", 0, vi, "read_comments", "-", "raised"))
  /\ error' = "PlaywrightError"
  /\ pc' = "idle"
  /\ UNCHANGED <<content, actions, file, run, dry_run, processed_videos,
                 processed_comments, videos, vi, comments, ai, ci, processed,
                 total_processed, success, reported, savedBefore, startFile,
                 startComments, prior, faults, rlVars, extVars>>

InLoops == pc = "comment"
ActionLeft == InLoops /\ ai <= Len(actions)
Dispatching == ActionLeft /\ actions[ai] \in {"like", "heart"}
CommentLeft == Dispatching /\ ci <= Len(comments)

\* SkipAction that leaves the loop over the action specs
SkipAction_ends_loop ==
  /\ ActionLeft
  /\ actions[ai] \notin {"like", "heart"}
  /\ ai' = Len(actions) + 1
  /\ UNCHANGED <<content, actions, file, run, pc, dry_run, processed_videos,
                 processed_comments, videos, vi, comments, ci, processed,
                 total_processed, success, error, reported, log, savedBefore,
                 startFile, startComments, prior, faults, fails, rlVars, extVars>>

\* an action spec that is neither like nor heart: the loop body does nothing
SkipAction ==
  /\ ActionLeft
  /\ actions[ai] \notin {"like", "heart"}
  /\ ai' = ai + 1
  /\ UNCHANGED <<content, actions, file, run, pc, dry_run, processed_videos,
                 processed_comments, videos, vi, comments, ci, processed,
                 total_processed, success, error, reported, log, savedBefore,
                 startFile, startComments, prior, faults, fails, rlVars, extVars>>

\* the comment loop of an action spec is exhausted
EndAction ==
  /\ Dispatching
  /\ ci > Len(comments)
  /\ ai' = ai + 1
  /\ ci' = 1
  /\ UNCHANGED <<content, actions, file, run, pc, dry_run, processed_videos,
                 processed_comments, videos, vi, comments, processed,
                 total_processed, success, error, reported, log, savedBefore,
                 startFile, startComments, prior, faults, fails, rlVars, extVars>>

\* if state.is_comment_processed(comment.id): continue
SkipProcessed ==
  /\ CommentLeft
  /\ is_comment_processed(processed_comments, comments[ci])
  /\ log' = Append(log, Ev("skip", comments[ci], ci, "-", actions[ai], "-"))
  /\ ci' = ci + 1
  /\ UNCHANGED <<content, actions, file, run, pc, dry_run, processed_videos,
                 processed_comments, videos, vi, comments, ai, processed,
                 total_processed, success, error, reported, savedBefore,
                 startFile, startComments, prior, faults, fails, rlVars, extVars>>

\* if dry_run: print, processed += 1, continue
DryRunCount ==
  /\ CommentLeft
  /\ ~is_comment_processed(processed_comments, comments[ci])
  /\ dry_run
  /\ processed' = processed + 1
  /\ ci' = ci + 1
  /\ UNCHANGED <<content, actions, file, run, pc, dry_run, processed_videos,
                 processed_comments, videos, vi, comments, ai,
                 total_processed, success, error, reported, log, savedBefore,
                 startFile, startComments, prior, faults, fails, rlVars, extVars>>

\* Govern without the dry_run test before it
Govern_in_dry_run ==
  /\ CommentLeft
  /\ ~is_comment_processed(processed_comments, comments[ci])
  /\ log' = Append(log, Ev("wait", comments[ci], ci, "wait_if_needed", actions[ai], "-"))
  /\ pc' = "dispatch"
  /\ UNCHANGED <<content, actions, file, run, dry_run, processed_videos,
                 processed_comments, videos, vi, comments, ai, ci, processed,
                 total_processed, success, error, reported, savedBefore,
                 startFile, startComments, prior, faults, fails, rlVars, extVars>>

\* await rate_limiter.wait_if_needed()
Govern ==
  /\ CommentLeft
  /\ ~is_comment_processed(processed_comments, comments[ci])
  /\ ~dry_run
  /\ log' = Append(log, Ev("wait", comments[ci], ci, "wait_if_needed", actions[ai], "-"))
  /\ pc' = "dispatch"
  /\ UNCHANGED <<content, actions, file, run, dry_run, processed_videos,
                 processed_comments, videos, vi, comments, ai, ci, processed,
                 total_processed, success, error, reported, savedBefore,
                 startFile, startComments, prior, faults, fails, rlVars, extVars>>

\* success = await platform.like_comment(idx)
Dispatch(ok) ==
  /\ pc = "dispatch"
  /\ ok \/ fails < MaxFails
  /\ fails' = IF ok THEN fails ELSE fails + 1
  /\ success' = ok
  /\ log' = Append(log, Ev("call", comments[ci], ci, DispatchMethod(actions[ai]),
                           actions[ai], IF ok THEN "true" ELSE "false"))
  /\ pc' = "record"
  /\ UNCHANGED <<content, actions, file, run, dry_run, processed_videos,
                 processed_comments, videos, vi, comments, ai, ci, processed,
                 total_processed, error, reported, savedBefore,
                 startFile, startComments, prior, faults, rlVars, extVars>>

\* RecordSuccess that leaves the flush for later
RecordSuccess_batched(o) ==
  /\ pc = "record"
  /\ success
  /\ o = "ok"
  /\ processed_comments' = mark_comment_processed(processed_comments, comments[ci])
  /\ log' = Append(log, Ev("mark", comments[ci], ci, "mark_comment_processed", actions[ai], "-"))
  /\ processed' = processed + 1
  /\ ci' = ci + 1
  /\ pc' = "comment"
  /\ UNCHANGED <<content, actions, file, run, dry_run, processed_videos,
                 videos, vi, comments, ai, total_processed, success, error, reported,
                 savedBefore, startFile, startComments, prior, faults, fails, rlVars, extVars>>

\* if success: mark_comment_processed, save, processed += 1
\* RecordSuccess that saves before it marks
RecordSuccess_save_first(o) ==
  /\ pc = "record"
  /\ success
  /\ o = "ok" \/ faults < MaxFaults
  /\ faults' = IF o = "ok" THEN faults ELSE faults + 1
  /\ processed_comments' = mark_comment_processed(processed_comments, comments[ci])
  /\ file' = SaveFile(file, processed_videos, processed_comments, o)
  /\ log' = log \o << Ev("save", comments[ci], ci, "save", actions[ai], o),
                      Ev("mark", comments[ci], ci, "mark_comment_processed", actions[ai], "-") >>
  /\ IF SaveRaises(o)
       THEN /\ error' = "OSError"
            /\ pc' = "idle"
            /\ UNCHANGED <<processed, ci>>
       ELSE /\ processed' = processed + 1
            /\ ci' = ci + 1
            /\ pc' = "comment"
            /\ UNCHANGED error
  /\ UNCHANGED <<content, actions, run, dry_run, processed_videos,
                 videos, vi, comments, ai, total_processed, success, reported,
                 savedBefore, startFile, startComments, prior, fails, rlVars, extVars>>

RecordSuccess(o) ==
  /\ pc = "record"
  /\ success
  /\ o = "ok" \/ faults < MaxFaults
  /\ faults' = IF o = "ok" THEN faults ELSE faults + 1
  /\ processed_comments' = mark_comment_processed(processed_comments, comments[ci])
  /\ file' = SaveFile(file, processed_videos, processed_comments', o)
  /\ log' = log \o << Ev("mark", comments[ci], ci, "mark_comment_processed", actions[ai], "-"),
                      Ev("save", comments[ci], ci, "save", actions[ai], o) >>
  /\ IF SaveRaises(o)
       THEN /\ error' = "OSError"
            /\ pc' = "idle"
            /\ UNCHANGED <<processed, ci>>
       ELSE /\ processed' = processed + 1
            /\ ci' = ci + 1
            /\ pc' = "comment"
            /\ UNCHANGED error
  /\ UNCHANGED <<content, actions, run, dry_run, processed_videos,
                 videos, vi, comments, ai, total_processed, success, reported,
                 savedBefore, startFile, startComments, prior, fails, rlVars, extVars>>

\* the process is killed inside save(), after open("w") truncated the file
KilledInSave ==
  /\ pc = "record"
  /\ success
  /\ faults < MaxFaults
  /\ faults' = faults + 1
  /\ processed_comments' = mark_comment_processed(processed_comments, comments[ci])
  /\ file' = PartialFile
  /\ log' = log \o << Ev("mark", comments[ci], ci, "mark_comment_processed", actions[ai], "-"),
                      Ev("save", comments[ci], ci, "save", actions[ai], "killed") >>
  /\ pc' = "idle"
  /\ UNCHANGED <<content, actions, run, dry_run, processed_videos,
                 videos, vi, comments, ai, ci, processed, total_processed, success,
                 error, reported, savedBefore, startFile, startComments, prior, fails, rlVars, extVars>>

\* RecordFailure that marks the comment all the same
RecordFailure_marks ==
  /\ pc = "record"
  /\ ~success
  /\ processed_comments' = mark_comment_processed(processed_comments, comments[ci])
  /\ ci' = ci + 1
  /\ pc' = "comment"
  /\ UNCHANGED <<content, actions, file, run, dry_run, processed_videos,
                 videos, vi, comments, ai, processed,
                 total_processed, success, error, reported, log, savedBefore,
                 startFile, startComments, prior, faults, fails, rlVars, extVars>>

\* else: print FAILURE, next comment
RecordFailure ==
  /\ pc = "record"
  /\ ~success
  /\ ci' = ci + 1
  /\ pc' = "comment"
  /\ UNCHANGED <<content, actions, file, run, dry_run, processed_videos,
                 processed_comments, videos, vi, comments, ai, processed,
                 total_processed, success, error, reported, log, savedBefore,
                 startFile, startComments, prior, faults, fails, rlVars, extVars>>

\* EndVideo that keeps the count of the last post only
EndVideo_last_only ==
  /\ InLoops
  /\ ai > Len(actions)
  /\ total_processed' = processed
  /\ vi' = vi + 1
  /\ pc' = "post"
  /\ UNCHANGED <<content, actions, file, run, dry_run, processed_videos,
                 processed_comments, videos, comments, ai, ci, processed,
                 success, error, reported, log, savedBefore,
                 startFile, startComments, prior, faults, fails, rlVars, extVars>>

\* return processed; total_processed += processed
EndVideo ==
  /\ InLoops
  /\ ai > Len(actions)
  /\ total_processed' = total_processed + processed
  /\ vi' = vi + 1
  /\ pc' = "post"
  /\ UNCHANGED <<content, actions, file, run, dry_run, processed_videos,
                 processed_comments, videos, comments, ai, ci, processed,
                 success, error, reported, log, savedBefore,
                 startFile, startComments, prior, faults, fails, rlVars, extVars>>

\* the summary line after the last post
Finish ==
  /\ pc = "post"
  /\ vi > Len(videos)
  /\ reported' = total_processed
  /\ pc' = "idle"
  /\ UNCHANGED <<content, actions, file, run, dry_run, processed_videos,
                 processed_comments, videos, vi, comments, ai, ci, processed,
                 total_processed, success, error, log, savedBefore,
                 startFile, startComments, prior, faults, fails, rlVars, extVars>>

Next ==
  \/ \E d \in BOOLEAN : StartRun(d)
  \/ ListVideos
  \/ ListVideosRaises
  \/ SkipNoUrl
  \/ ReadComments
  \/ ReadCommentsRaises
  \/ SkipAction
  \/ EndAction
  \/ SkipProcessed
  \/ DryRunCount
  \/ Govern
  \/ \E ok \in BOOLEAN : Dispatch(ok)
  \/ \E o \in SaveOutcomes : RecordSuccess(o)
  \/ KilledInSave
  \/ RecordFailure
  \/ EndVideo
  \/ Finish

Spec == Init /\ [][Next]_vars

(* ------------------------ RateLimiter (safety.py) --------------------- *)
\* Prune that drops nothing
Prune_keeps_all(times, t) == times

\* self.action_times = [t for t in self.action_times if t > cutoff]
Prune(times, t) == SelectSeq(times, LAMBDA x : x > t - WindowSecs)

OverLimit_off_by_one(pruned, n) == Len(pruned) > n

\* if len(self.action_times) >= self.actions_per_minute
OverLimit(pruned, n) == Len(pruned) >= n

CeilingWait_newest(pruned, t) ==
  LET wait_seconds == pruned[Len(pruned)] + WindowSecs - t
  IN IF wait_seconds > 0 THEN wait_seconds ELSE 0

\* wait_seconds = oldest_action + 1 minute - now, slept only when positive
CeilingWait(pruned, t) ==
  LET wait_seconds == pruned[1] + WindowSecs - t
  IN IF wait_seconds > 0 THEN wait_seconds ELSE 0

JitterChoices_from_zero(lo, hi) == 0..hi

\* random.uniform(self.min_delay, self.max_delay), in whole seconds
JitterChoices(lo, hi) == lo..hi

Jitters == UNION {d[1]..d[2] : d \in DelayRanges}

Limiters ==
  {[actions_per_minute |-> n, min_delay |-> d[1], max_delay |-> d[2],
    action_times |-> <<>>, err |-> "none"] :
      n \in 0..MaxN, d \in DelayRanges}

\* RateLimiter.__init__ with min_delay <= max_delay, the clock at 0
InitRL ==
  /\ content = <<>>
  /\ actions = <<>>
  /\ file = AbsentFile
  /\ run = 0
  /\ pc = "limiter"
  /\ dry_run = FALSE
  /\ processed_videos = {}
  /\ processed_comments = {}
  /\ videos = <<>>
  /\ vi = 1
  /\ comments = <<>>
  /\ ai = 1
  /\ ci = 1
  /\ processed = 0
  /\ total_processed = 0
  /\ success = FALSE
  /\ error = "none"
  /\ reported = -1
  /\ log = <<>>
  /\ savedBefore = {}
  /\ startFile = AbsentFile
  /\ startComments = {}
  /\ prior = NoPrior
  /\ faults = 0
  /\ fails = 0
  /\ rl \in Limiters
  /\ now = 0
  /\ recorded = <<>>
  /\ lastCall = NoCall
  /\ ticked = FALSE
  /\ LedIdle
  /\ ReadIdle
  /\ LLMIdle
  /\ CtlIdle
  /\ LikeIdle
  /\ RunIdle
  /\ TimeIdle
  /\ DiscIdle

\* the caller works for d seconds between two calls
Tick(d) ==
  /\ pc = "limiter"
  /\ ~ticked
  /\ rl.err = "none"
  /\ Len(recorded) < MaxCalls
  /\ d > 0
  /\ now' = now + d
  /\ ticked' = TRUE
  /\ UNCHANGED <<orchVars, rl, recorded, lastCall, extVars>>

\* wait_if_needed: prune, ceiling wait, jitter, record; the sleeps and the call
\* itself overrun by lag seconds in total
WaitIfNeeded(j, lag) ==
  /\ pc = "limiter"
  /\ rl.err = "none"
  /\ Len(recorded) < MaxCalls
  /\ j \in JitterChoices(rl.min_delay, rl.max_delay)
  /\ lag \in Lags
  /\ LET pruned == Prune(rl.action_times, now)
         over == OverLimit(pruned, rl.actions_per_minute)
     IN IF over /\ pruned = <<>>
          THEN \* self.action_times[0] on an empty list: IndexError
               /\ rl' = [rl EXCEPT !.action_times = pruned, !.err = "IndexError"]
               /\ lastCall' = [now0 |-> now, sleeps |-> <<>>]
               /\ UNCHANGED <<now, recorded>>
          ELSE LET w == IF over THEN CeilingWait(pruned, now) ELSE 0
                   t == now + w + j + lag
               IN /\ rl' = [rl EXCEPT !.action_times = Append(pruned, t)]
                  /\ now' = t
                  /\ recorded' = Append(recorded, t)
                  /\ lastCall' = [now0 |-> now,
                                  sleeps |-> (IF w > 0 THEN <<w>> ELSE <<>>) \o <<j>>]
  /\ ticked' = FALSE
  /\ UNCHANGED <<orchVars, extVars>>

NextRL ==
  \/ \E d \in Gaps : Tick(d)
  \/ \E j \in Jitters, lag \in Lags : WaitIfNeeded(j, lag)

SpecRL == InitRL /\ [][NextRL]_vars

(* ------------- EngagementState over its file (state.py) --------------- *)
\* SpecLedger: one EngagementState object at a time over one state file whose
\* content is any document: the object is constructed, ids are marked, save()
\* is called, and a fresh object is constructed on the same file.

\* the value found under a key of the JSON object
Missing == [t |-> "missing", v |-> <<>>]
Null == [t |-> "null", v |-> <<>>]
Number == [t |-> "number", v |-> <<>>]
JsonList(s) == [t |-> "list", v |-> s]
JsonString(s) == [t |-> "string", v |-> s]
FieldValues ==
  {JsonList(s) : s \in SeqsUpTo(Ids, NumIds)} \cup {Missing, Null, Number, JsonString(<<1>>)}
LastRuns == {"missing", "empty", "iso", "invalid", "number"}

Doc(k, pv, pcm, lr) ==
  [kind |-> k, processed_videos |-> pv, processed_comments |-> pcm, last_run |-> lr]
NoDoc(k) == Doc(k, Missing, Missing, "missing")
\* absent; present and unreadable; bytes that are not UTF-8; text that is not
\* JSON; a JSON array; a JSON number, string or null; a JSON object
Stores ==
  {NoDoc(k) : k \in {"absent", "unreadable", "not_utf8", "not_json", "array", "scalar"}}
    \cup {Doc("object", pv, pcm, lr) : pv \in FieldValues, pcm \in FieldValues, lr \in LastRuns}

\* set(data.get(key, [])): a list or a string is iterated, the default for a
\* missing key is [], anything else is a TypeError
IterRaises(fv) == fv.t \in {"null", "number"}
IterSet_first_only(fv) == IF fv.v = <<>> THEN {} ELSE {fv.v[1]}
IterSet(fv) == {fv.v[i] : i \in 1..Len(fv.v)}

\* __init__ / _load: only json.JSONDecodeError and OSError are caught
Loaded(e, v, c) == [raised |-> e, videos |-> v, comments |-> c]
Load(d) ==
  CASE d.kind = "absent" -> Loaded("none", {}, {})
    [] d.kind \in {"unreadable", "not_json"} -> Loaded("none", {}, {})
    [] d.kind = "not_utf8" -> Loaded("UnicodeDecodeError", {}, {})
    [] d.kind \in {"array", "scalar"} -> Loaded("AttributeError", {}, {})
    [] d.kind = "object" ->
         IF IterRaises(d.processed_videos) \/ IterRaises(d.processed_comments)
           THEN Loaded("TypeError", {}, {})
         ELSE IF d.last_run = "invalid" THEN Loaded("ValueError", {}, {})
         ELSE IF d.last_run = "number" THEN Loaded("TypeError", {}, {})
         ELSE Loaded("none", IterSet(d.processed_videos), IterSet(d.processed_comments))

\* list(a set): its elements once each, in some order
ListsOf(S) == {s \in [1..Cardinality(S) -> S] : \A i, j \in DOMAIN s : i # j => s[i] # s[j]}

\* save on the document: as SaveFile, the lists written in the order vl, cl
SaveStore(d, vl, cl, o) ==
  CASE o = "ok" -> Doc("object", JsonList(vl), JsonList(cl), "iso")
    [] o = "open_fail" -> d
    [] o = "write_fail" -> NoDoc("not_json")

\* mark_video_processed that forgets what was marked before
mark_video_processed_only(S, v) == {v}
mark_video_processed(S, v) == S \cup {v}
is_video_processed(S, v) == v \in S

orchRest == <<content, actions, file, run, pc, dry_run, videos, vi, comments, ai,
              ci, processed, total_processed, success, error, reported, log,
              savedBefore, startFile, startComments, prior, faults, fails>>

ledOthers == <<orchRest, rlVars, runVars, timeVars, discVars, likeVars, ctlVars, llmVars, readVars>>

InitLedger ==
  /\ OrchPinned("ledger")
  /\ RLPinned
  /\ RunIdle
  /\ ReadIdle
  /\ LLMIdle
  /\ CtlIdle
  /\ LikeIdle
  /\ TimeIdle
  /\ DiscIdle
  /\ store \in Stores
  /\ lpc = "none"
  /\ raised = "none"
  /\ saved = NoSets

HasObject == lpc # "none" /\ raised = "none"

\* EngagementState(state_file): a fresh object replaces the one at hand
Construct ==
  /\ pc = "ledger"
  /\ LET r == Load(store)
     IN /\ raised' = r.raised
        /\ processed_videos' = r.videos
        /\ processed_comments' = r.comments
  /\ lpc' = IF lpc = "saved" THEN "reloaded" ELSE "loaded"
  /\ UNCHANGED <<ledOthers, store, saved>>

\* MarkVideo that enters the id in the comment set as well
MarkVideo_both_sets(v) ==
  /\ pc = "ledger"
  /\ HasObject
  /\ processed_videos' = mark_video_processed(processed_videos, v)
  /\ processed_comments' = mark_comment_processed(processed_comments, v)
  /\ lpc' = "marked"
  /\ UNCHANGED <<ledOthers, store, raised, saved>>

MarkVideo(v) ==
  /\ pc = "ledger"
  /\ HasObject
  /\ processed_videos' = mark_video_processed(processed_videos, v)
  /\ lpc' = "marked"
  /\ UNCHANGED <<ledOthers, processed_comments, store, raised, saved>>

MarkComment(c) ==
  /\ pc = "ledger"
  /\ HasObject
  /\ processed_comments' = mark_comment_processed(processed_comments, c)
  /\ lpc' = "marked"
  /\ UNCHANGED <<ledOthers, processed_videos, store, raised, saved>>

\* save(): returns normally whatever the outcome of the write
Save(o) ==
  /\ pc = "ledger"
  /\ HasObject
  /\ \E vl \in ListsOf(processed_videos), cl \in ListsOf(processed_comments) :
       store' = SaveStore(store, vl, cl, o)
  /\ IF o = "ok"
       THEN /\ lpc' = "saved"
            /\ saved' = [videos |-> processed_videos, comments |-> processed_comments]
       ELSE /\ lpc' = "unsaved"
            /\ UNCHANGED saved
  /\ UNCHANGED <<ledOthers, processed_videos, processed_comments, raised>>

NextLedger ==
  \/ Construct
  \/ \E v \in Ids : MarkVideo(v)
  \/ \E c \in Ids : MarkComment(c)
  \/ \E o \in SaveOutcomes : Save(o)

SpecLedger == InitLedger /\ [][NextLedger]_vars

(* ------------- engage_with_scenario, the envelope (cli.py) ------------ *)
\* SpecRun: one call of engage_with_scenario from load_config to its return
\* or to the exception that leaves it; the work on a post is one step.

Invocations == [profile : BOOLEAN, scenario : BOOLEAN, channel_url : BOOLEAN, dry_run : BOOLEAN]

runOthers == <<orchVars, rlVars, ledVars, timeVars, discVars, likeVars, ctlVars, llmVars, readVars>>

InitRun ==
  /\ OrchPinned("run")
  /\ RLPinned
  /\ LedIdle
  /\ ReadIdle
  /\ LLMIdle
  /\ CtlIdle
  /\ LikeIdle
  /\ TimeIdle
  /\ DiscIdle
  /\ inv \in Invocations
  /\ rpc = "load_config"
  /\ trace = <<>>
  /\ exc = "none"
  /\ browser = FALSE
  /\ todo = 0

\* exit the function with exception e before the try block
Leave(e) == exc' = e /\ rpc' = "done"

LoadConfig ==
  /\ rpc = "load_config"
  /\ trace' = Append(trace, "load_config")
  /\ rpc' = "check_profile"
  /\ UNCHANGED <<runOthers, inv, exc, browser, todo>>

\* CheckProfile that lets an unknown profile through
CheckProfile_skipped ==
  /\ rpc = "check_profile"
  /\ rpc' = "check_scenario"
  /\ UNCHANGED <<runOthers, inv, trace, exc, browser, todo>>

\* if profile_name not in config.profiles: sys.exit(1)
CheckProfile ==
  /\ rpc = "check_profile"
  /\ IF inv.profile THEN rpc' = "check_scenario" /\ UNCHANGED exc
                    ELSE Leave("SystemExit(1)")
  /\ UNCHANGED <<runOthers, inv, trace, browser, todo>>

\* if scenario_name not in config.scenarios: sys.exit(1)
CheckScenario ==
  /\ rpc = "check_scenario"
  /\ IF inv.scenario THEN rpc' = "check_channel_url" /\ UNCHANGED exc
                     ELSE Leave("SystemExit(1)")
  /\ UNCHANGED <<runOthers, inv, trace, browser, todo>>

\* if not profile.channel_url: sys.exit(1)
CheckChannelUrl ==
  /\ rpc = "check_channel_url"
  /\ IF inv.channel_url THEN rpc' = "create_controller" /\ UNCHANGED exc
                        ELSE Leave("SystemExit(1)")
  /\ UNCHANGED <<runOthers, inv, trace, browser, todo>>

\* _create_controller: ChromeController.__init__ raises RuntimeError when no
\* Chrome executable is found
CreateController(ok) ==
  /\ rpc = "create_controller"
  /\ trace' = Append(trace, "ChromeController")
  /\ IF ok THEN rpc' = "create_llm" /\ UNCHANGED exc
           ELSE Leave("RuntimeError")
  /\ UNCHANGED <<runOthers, inv, browser, todo>>

CreateLlm(ok) ==
  /\ rpc = "create_llm"
  /\ trace' = Append(trace, "create_llm")
  /\ IF ok THEN rpc' = "create_state" /\ UNCHANGED exc
           ELSE Leave("ValueError")
  /\ UNCHANGED <<runOthers, inv, browser, todo>>

\* RateLimiter(...) and EngagementState(): the constructor reads the state
\* file and raises on the documents Load raises on
CreateState(ok) ==
  /\ rpc = "create_state"
  /\ trace' = Append(trace, "EngagementState")
  /\ IF ok THEN rpc' = "ensure_browser" /\ UNCHANGED exc
           ELSE Leave("LoadError")
  /\ UNCHANGED <<runOthers, inv, browser, todo>>

\* try: cdp_url = await controller.ensure_browser(); browser = Browser(...)
EnsureBrowser(ok) ==
  /\ rpc = "ensure_browser"
  /\ trace' = Append(trace, "ensure_browser")
  /\ IF ok THEN rpc' = "list_videos" /\ browser' = TRUE /\ UNCHANGED exc
           ELSE rpc' = "finally" /\ exc' = "RuntimeError" /\ UNCHANGED browser
  /\ UNCHANGED <<runOthers, inv, todo>>

\* list_videos returns n posts or raises; an empty list returns at once
Discover(n, ok) ==
  /\ rpc = "list_videos"
  /\ trace' = Append(trace, "list_videos")
  /\ IF ~ok THEN rpc' = "finally" /\ exc' = "PlaywrightError" /\ UNCHANGED todo
     ELSE IF n = 0 THEN rpc' = "finally" /\ UNCHANGED <<exc, todo>>
     ELSE rpc' = "loop" /\ todo' = n /\ UNCHANGED exc
  /\ UNCHANGED <<runOthers, inv, browser>>

\* _process_video_comments for one post: a post without URL makes no call
ProcessVideo(url, ok) ==
  /\ rpc = "loop"
  /\ todo > 0
  /\ trace' = IF url THEN Append(trace, "read_comments") ELSE trace
  /\ IF url /\ ~ok THEN rpc' = "finally" /\ exc' = "PlaywrightError" /\ UNCHANGED todo
                   ELSE todo' = todo - 1 /\ UNCHANGED <<rpc, exc>>
  /\ UNCHANGED <<runOthers, inv, browser>>

PrintSummary ==
  /\ rpc = "loop"
  /\ todo = 0
  /\ trace' = Append(trace, IF inv.dry_run THEN "summary [DRY-RUN]" ELSE "summary")
  /\ rpc' = "finally"
  /\ UNCHANGED <<runOthers, inv, exc, browser, todo>>

\* Cleanup without the try around browser.stop()
Cleanup_stop_uncaught(stopped) ==
  /\ rpc = "finally"
  /\ stopped \/ browser
  /\ IF stopped
       THEN /\ trace' = trace \o (IF browser THEN <<"browser.stop">> ELSE <<>>) \o <<"cleanup">>
            /\ UNCHANGED exc
       ELSE /\ trace' = Append(trace, "browser.stop raised")
            /\ exc' = "Exception"
  /\ rpc' = "done"
  /\ UNCHANGED <<runOthers, inv, browser, todo>>

\* finally: if browser: browser.stop() with its exceptions swallowed, then
\* controller.cleanup(); the exception in flight, if any, goes on after it
Cleanup(stopped) ==
  /\ rpc = "finally"
  /\ stopped \/ browser
  /\ trace' = trace \o (IF ~browser THEN <<>>
                        ELSE IF stopped THEN <<"browser.stop">>
                        ELSE <<"browser.stop raised">>) \o <<"cleanup">>
  /\ rpc' = "done"
  /\ UNCHANGED <<runOthers, inv, exc, browser, todo>>

NextRun ==
  \/ LoadConfig
  \/ CheckProfile
  \/ CheckScenario
  \/ CheckChannelUrl
  \/ \E ok \in BOOLEAN : CreateController(ok)
  \/ \E ok \in BOOLEAN : CreateLlm(ok)
  \/ \E ok \in BOOLEAN : CreateState(ok)
  \/ \E ok \in BOOLEAN : EnsureBrowser(ok)
  \/ \E n \in 0..MaxPosts, ok \in BOOLEAN : Discover(n, ok)
  \/ \E url \in BOOLEAN, ok \in BOOLEAN : ProcessVideo(url, ok)
  \/ PrintSummary
  \/ \E stopped \in BOOLEAN : Cleanup(stopped)

SpecRun == InitRun /\ [][NextRun]_vars

(* ------------------ parse_relative_time (time_parser.py) -------------- *)
\* SpecTime: one call of parse_relative_time.  A string is the sequence of
\* its characters.  An instant is a day number (1 is 0001-01-01, the earliest
\* datetime) and the seconds into that day; a timedelta is days and seconds.

LowerCase == <<"a", "b", "c", "d", "e", "f", "g", "h", "i", "j", "k", "l", "m", "n", "o", "p", "q", "r", "s", "t", "u", "v", "w", "x", "y", "z">>
UpperCase == <<"A", "B", "C", "D", "E", "F", "G", "H", "I", "J", "K", "L", "M", "N", "O", "P", "Q", "R", "S", "T", "U", "V", "W", "X", "Y", "Z">>
DigitChars == <<"0", "1", "2", "3", "4", "5", "6", "7", "8", "9">>
Whitespace == {" ", "\t"}
Digits == {DigitChars[i] : i \in 1..10}

\* str.lower, str.upper, str.capitalize, str.title
LowerChar(c) == IF \E i \in 1..26 : UpperCase[i] = c
                  THEN LowerCase[CHOOSE i \in 1..26 : UpperCase[i] = c] ELSE c
UpperChar(c) == IF \E i \in 1..26 : LowerCase[i] = c
                  THEN UpperCase[CHOOSE i \in 1..26 : LowerCase[i] = c] ELSE c
Lower(s) == [i \in 1..Len(s) |-> LowerChar(s[i])]
Upper(s) == [i \in 1..Len(s) |-> UpperChar(s[i])]
Capitalize(s) == [i \in 1..Len(s) |-> IF i = 1 THEN UpperChar(s[i]) ELSE LowerChar(s[i])]
IsLetter(c) == \E i \in 1..26 : LowerCase[i] = c \/ UpperCase[i] = c
Title(s) ==
  [i \in 1..Len(s) |-> IF i = 1 \/ ~IsLetter(s[IF i = 1 THEN 1 ELSE i - 1])
                         THEN UpperChar(s[i]) ELSE LowerChar(s[i])]

\* str.strip
Strip(s) ==
  LET inked == {i \in 1..Len(s) : s[i] \notin Whitespace}
  IN IF inked = {} THEN <<>>
     ELSE SubSeq(s, CHOOSE i \in inked : \A j \in inked : i <= j,
                    CHOOSE i \in inked : \A j \in inked : i >= j)

\* the number of characters from position i on that are in C, up to the
\* first that does not: what \d+ and \s+ consume
RunLen(s, i, C) ==
  LET ends == {j \in i..(Len(s) + 1) : \A k \in i..(j - 1) : s[k] \in C}
  IN (CHOOSE j \in ends : \A k \in ends : j >= k) - i
HasAt(s, i, w) == i + Len(w) - 1 <= Len(s) /\ SubSeq(s, i, i + Len(w) - 1) = w

\* int() of a string of digits, and str() of a natural number
RECURSIVE IntOf(_)
IntOf(ds) ==
  IF ds = <<>> THEN 0
  ELSE 10 * IntOf(SubSeq(ds, 1, Len(ds) - 1))
         + ((CHOOSE i \in 1..10 : DigitChars[i] = ds[Len(ds)]) - 1)
RECURSIVE StrOf(_)
StrOf(n) == IF n < 10 THEN <<DigitChars[n + 1]>> ELSE Append(StrOf(n \div 10), DigitChars[(n % 10) + 1])

UnitNames == {"second", "minute", "hour", "day", "week", "month", "year"}
UnitWord ==
  [u \in UnitNames |->
     CASE u = "second" -> <<"s", "e", "c", "o", "n", "d">>
       [] u = "minute" -> <<"m", "i", "n", "u", "t", "e">>
       [] u = "hour" -> <<"h", "o", "u", "r">>
       [] u = "day" -> <<"d", "a", "y">>
       [] u = "week" -> <<"w", "e", "e", "k">>
       [] u = "month" -> <<"m", "o", "n", "t", "h">>
       [] u = "year" -> <<"y", "e", "a", "r">>]
Ago == <<"a", "g", "o">>
JustNow == <<"j", "u", "s", "t", " ", "n", "o", "w">>
MomentsAgo == <<"m", "o", "m", "e", "n", "t", "s", " ", "a", "g", "o">>

\* re.match(r"(\d+)\s+(second|minute|hour|day|week|month|year)s?\s+ago", s):
\* anchored at the start only
NoMatch == [ok |-> FALSE, amount |-> <<>>, unit |-> "none"]
Match(s) ==
  LET k == RunLen(s, 1, Digits)
      m == RunLen(s, k + 1, Whitespace)
      p == k + m + 1
      us == {u \in UnitNames : HasAt(s, p, UnitWord[u])}
  IN IF k = 0 \/ m = 0 \/ us = {} THEN NoMatch
     ELSE LET u == CHOOSE x \in us : TRUE
              q == p + Len(UnitWord[u])
              r == IF HasAt(s, q, <<"s">>) THEN q + 1 ELSE q
              g == RunLen(s, r, Whitespace)
          IN IF g >= 1 /\ HasAt(s, r + g, Ago)
               THEN [ok |-> TRUE, amount |-> SubSeq(s, 1, k), unit |-> u]
               ELSE NoMatch

SecsPerDay == 86400
MinOrdinal == 1
\* timedelta(days=d, seconds=n), normalized
timedelta(d, n) == [days |-> d + (n \div SecsPerDay), secs |-> n % SecsPerDay]
delta_map(unit, amount) ==
  CASE unit = "second" -> timedelta(0, amount)
    [] unit = "minute" -> timedelta(0, amount * 60)
    [] unit = "hour" -> timedelta(0, amount * 3600)
    [] unit = "day" -> timedelta(amount, 0)
    [] unit = "week" -> timedelta(amount * 7, 0)
    [] unit = "month" -> timedelta(amount * 30, 0)
    [] unit = "year" -> timedelta(amount * 365, 0)

Returned(t) == [raised |-> "none", at |-> t]
Raised(e) == [raised |-> e, at |-> [days |-> 0, secs |-> 0]]
\* datetime - timedelta: OverflowError when the result is before 0001-01-01
Minus(t, dl) ==
  LET borrow == IF t.secs < dl.secs THEN 1 ELSE 0
      d == t.days - dl.days - borrow
  IN IF d < MinOrdinal THEN Raised("OverflowError")
     ELSE Returned([days |-> d, secs |-> t.secs - dl.secs + borrow * SecsPerDay])

\* parse_relative_time with datetime.now(UTC) = t
parse_relative_time(str, t) ==
  LET s == Strip(Lower(str))
      mt == Match(s)
  IN IF s \in {JustNow, MomentsAgo} THEN Returned(t)
     ELSE IF ~mt.ok THEN Returned(t)
     ELSE Minus(t, delta_map(mt.unit, IntOf(mt.amount)))

\* the phrases: "<n> <unit>[s] ago" in lower case, upper case or title case,
\* with one or two blanks between the words and with or without blanks around
Amounts == {0, 1, 2, 7, 30, 400, 3000}
Blank == <<" ">>
Pads == {<<>>, Blank}
Gaps2 == {Blank, <<" ", "\t">>}
Casings == {"lower", "upper", "title"}
Cased(s, c) == CASE c = "lower" -> s [] c = "upper" -> Upper(s) [] c = "title" -> Title(s)
AgoPhrase(n, u, plural, gap, pad, c) ==
  pad \o Cased(StrOf(n) \o gap \o UnitWord[u] \o (IF plural THEN <<"s">> ELSE <<>>) \o gap \o Ago, c) \o pad
JustNowPhrases == {JustNow, MomentsAgo, Capitalize(JustNow), Blank \o Upper(MomentsAgo)}
OtherPhrases ==
  JustNowPhrases \cup
  {<<>>, <<"y", "e", "s", "t", "e", "r", "d", "a", "y">>, <<"5", "d", "a", "y", "s", " ", "a", "g", "o">>, <<"a", "n", " ", "h", "o", "u", "r", " ", "a", "g", "o">>, <<"2", " ", "h", "o", "u", "r", "s">>,
   <<"3", " ", "d", "a", "y", "s", " ", "a", "g", "o", " ", "(", "e", "d", "i", "t", "e", "d", ")">>}

\* the clock at the time of the call: 2026-11-03, three times of day
Today == 739923
Instants == {[days |-> Today, secs |-> n] : n \in {0, 43200, SecsPerDay - 1}}

timeOthers == <<orchVars, rlVars, ledVars, runVars, discVars, likeVars, ctlVars, llmVars, readVars>>

InitTime ==
  /\ OrchPinned("time")
  /\ RLPinned
  /\ LedIdle
  /\ ReadIdle
  /\ LLMIdle
  /\ CtlIdle
  /\ LikeIdle
  /\ RunIdle
  /\ DiscIdle
  /\ \/ \E n \in Amounts, u \in UnitNames, pl \in BOOLEAN, g \in Gaps2, pad \in Pads, c \in Casings :
          /\ relative_str = AgoPhrase(n, u, pl, g, pad, c)
          /\ given = [kind |-> "ago", amount |-> n, unit |-> u]
     \/ /\ relative_str \in OtherPhrases
        /\ given = [kind |-> IF relative_str \in JustNowPhrases THEN "now" ELSE "other",
                     amount |-> 0, unit |-> "none"]
  /\ clock \in Instants
  /\ parsed = NotParsed
  /\ later = clock
  /\ again = NotParsed

ParseRelativeTime ==
  /\ pc = "time"
  /\ parsed = NotParsed
  /\ parsed' = parse_relative_time(relative_str, clock)
  /\ UNCHANGED <<timeOthers, relative_str, given, clock, later, again>>

\* time passes between two calls: the clock a second call reads shows a later
\* instant of the same day
Elapse ==
  /\ pc = "time"
  /\ parsed # NotParsed
  /\ again = NotParsed
  /\ \E t \in Instants : t.secs > later.secs /\ later' = t
  /\ UNCHANGED <<timeOthers, relative_str, given, clock, parsed, again>>

\* the caller calls parse_relative_time again with the same string; the
\* function takes no instant, it reads the clock once more
ParseAgain ==
  /\ pc = "time"
  /\ parsed # NotParsed
  /\ again = NotParsed
  /\ again' = parse_relative_time(relative_str, later)
  /\ UNCHANGED <<timeOthers, relative_str, given, clock, parsed, later>>

NextTime == ParseRelativeTime \/ Elapse \/ ParseAgain

SpecTime == InitTime /\ [][NextTime]_vars

(* -------- discovery: _get_discovery_params, list_videos, the loop ----- *)
\* SpecDiscover: the discovery part of one run: the channel page shows some
\* items, list_videos extracts and filters them, engage_with_scenario
\* truncates the list and hands each video to _process_video_comments.  A
\* video is the number of its item on the page.  The clock is read once.

MaxItems == 3
Methods == {"recent_posts", "recent_days", "all_posts"}
Limits == {0, 1, 2, 7}
Discoveries == [method : Methods, limit : Limits]
\* 'posted' of an item: the text YouTube shows, '' for a Short
PostedTexts ==
  {<<"2", " ", "h", "o", "u", "r", "s", " ", "a", "g", "o">>,
   <<"7", " ", "d", "a", "y", "s", " ", "a", "g", "o">>,
   <<"4", "0", "0", " ", "d", "a", "y", "s", " ", "a", "g", "o">>,
   <<"3", "0", "0", "0", " ", "y", "e", "a", "r", "s", " ", "a", "g", "o">>,
   <<>>}
Pages == SeqsUpTo(PostedTexts, MaxItems)

None == [set |-> FALSE, val |-> 0]
Some(n) == [set |-> TRUE, val |-> n]
\* the truth value of an int | None
Truthy(x) == x.set /\ x.val # 0

get_discovery_params(d) ==
  CASE d.method = "recent_days" -> [max_videos |-> 100, days_ago |-> Some(d.limit)]
    [] d.method = "all_posts" -> [max_videos |-> 999, days_ago |-> None]
    [] OTHER -> [max_videos |-> d.limit, days_ago |-> None]

\* the first n elements: the extraction loop up to Math.min(items.length,
\* maxVideos), and the slice videos[:n], n >= 0
Take_all(s, n) == s
Take(s, n) == SubSeq(s, 1, IF n < Len(s) THEN n ELSE Len(s))

Geq(a, b) == a.days > b.days \/ (a.days = b.days /\ a.secs >= b.secs)

\* list_videos on the page p at time t
list_videos(p, max_videos, days_ago, t) ==
  LET vs == Take([i \in 1..Len(p) |-> i], max_videos)
      cutoff_date == Minus(t, timedelta(days_ago.val, 0)).at
      kept(i) == LET posted_date == parse_relative_time(p[i], t)
                 IN posted_date.raised = "none" /\ Geq(posted_date.at, cutoff_date)
  IN IF Truthy(days_ago) /\ vs # <<>> THEN SelectSeq(vs, kept) ELSE vs

discOthers == <<orchVars, rlVars, ledVars, runVars, relative_str, given, parsed, later, again, likeVars, ctlVars, llmVars, readVars>>

InitDiscover ==
  /\ OrchPinned("discovery")
  /\ RLPinned
  /\ LedIdle
  /\ ReadIdle
  /\ LLMIdle
  /\ CtlIdle
  /\ LikeIdle
  /\ RunIdle
  /\ relative_str = <<>>
  /\ given = "none"
  /\ parsed = NotParsed
  /\ later = "none"
  /\ again = NotParsed
  /\ clock \in Instants
  /\ discovery \in Discoveries
  /\ page \in Pages
  /\ reached = <<>>
  /\ visited = <<>>
  /\ dpc = "list_videos"

\* list_videos; no videos: return; recent_posts: videos[:limit]
FetchVideos ==
  /\ dpc = "list_videos"
  /\ LET prm == get_discovery_params(discovery)
         vs == list_videos(page, prm.max_videos, prm.days_ago, clock)
     IN IF vs = <<>>
          THEN reached' = <<>> /\ dpc' = "done"
          ELSE /\ reached' = IF discovery.method = "recent_posts"
                               THEN Take(vs, discovery.limit) ELSE vs
               /\ dpc' = "loop"
  /\ UNCHANGED <<discOthers, clock, discovery, page, visited>>

\* for i, video in enumerate(videos, 1): _process_video_comments(...)
VisitVideo ==
  /\ dpc = "loop"
  /\ Len(visited) < Len(reached)
  /\ visited' = Append(visited, reached[Len(visited) + 1])
  /\ UNCHANGED <<discOthers, clock, discovery, page, reached, dpc>>

EndVisits ==
  /\ dpc = "loop"
  /\ Len(visited) = Len(reached)
  /\ dpc' = "done"
  /\ UNCHANGED <<discOthers, clock, discovery, page, reached, visited>>

NextDiscover ==
  \/ FetchVideos
  \/ VisitVideo
  \/ EndVisits

SpecDiscover == InitDiscover /\ [][NextDiscover]_vars

(* ---------------- SpecLike: YouTubePlatform.like_comment -------------- *)
\* One call of like_comment(comment_index) on a page.  The page is what the
\* locators find: the number of comment threads under the selector the call
\* uses, and whether the thread at hand holds a like button under the first
\* selector or under the aria-label selector.  Every page operation that is
\* awaited may raise.
MaxThreads == 2
Selectors == {"panel", "page"}
Likings ==
  [comment_index : -1..(MaxThreads + 1), is_short : BOOLEAN,
   threads : [Selectors -> 0..MaxThreads], like_button : BOOLEAN, like_aria : BOOLEAN]

\* for Shorts the threads are looked up inside the comments panel
thread_sel(k) == IF k.is_short THEN "panel" ELSE "page"
thread_count(k) == k.threads[thread_sel(k)]
\* the range test without its lower end
OutOfRange_above_only(i, n) == i > n
OutOfRange(i, n) == i < 1 \/ i > n

likeOthers == <<orchVars, rlVars, ledVars, runVars, timeVars, discVars, ctlVars, llmVars, readVars>>

InitLike ==
  /\ OrchPinned("like")
  /\ RLPinned
  /\ LedIdle
  /\ ReadIdle
  /\ LLMIdle
  /\ CtlIdle
  /\ RunIdle
  /\ TimeIdle
  /\ DiscIdle
  /\ liking \in Likings
  /\ kpc = "count_threads"
  /\ returned = "pending"
  /\ clicked = FALSE
  /\ failed = FALSE

\* return v
Return(v) == returned' = v /\ kpc' = "done"
\* except Exception: logger.exception(...); return False
Caught ==
  /\ failed' = TRUE
  /\ Return("False")
  /\ UNCHANGED <<likeOthers, liking, clicked>>

\* thread_count = await threads.count(); the range test
CountThreads(ok) ==
  /\ pc = "like"
  /\ kpc = "count_threads"
  /\ IF ~ok THEN Caught
     ELSE /\ IF OutOfRange(liking.comment_index, thread_count(liking))
               THEN Return("False")
               ELSE kpc' = "scroll" /\ UNCHANGED returned
          /\ UNCHANGED <<likeOthers, liking, clicked, failed>>

\* await thread.scroll_into_view_if_needed(); await asyncio.sleep(0.5)
ScrollIntoView(ok) ==
  /\ pc = "like"
  /\ kpc = "scroll"
  /\ IF ~ok THEN Caught
     ELSE /\ kpc' = "like_button"
          /\ UNCHANGED <<likeOthers, liking, returned, clicked, failed>>

\* if await like_button.count() == 0: try the aria-label selector
CountLikeButton(ok) ==
  /\ pc = "like"
  /\ kpc = "like_button"
  /\ IF ~ok THEN Caught
     ELSE /\ kpc' = IF liking.like_button THEN "click" ELSE "like_aria"
          /\ UNCHANGED <<likeOthers, liking, returned, clicked, failed>>

\* if await like_button.count() == 0: return False
CountLikeAria(ok) ==
  /\ pc = "like"
  /\ kpc = "like_aria"
  /\ IF ~ok THEN Caught
     ELSE /\ IF liking.like_aria
               THEN kpc' = "click" /\ UNCHANGED returned
               ELSE Return("False")
          /\ UNCHANGED <<likeOthers, liking, clicked, failed>>

\* await like_button.click(); else: return True
Click(ok) ==
  /\ pc = "like"
  /\ kpc = "click"
  /\ IF ~ok THEN Caught
     ELSE /\ clicked' = TRUE
          /\ Return("True")
          /\ UNCHANGED <<likeOthers, liking, failed>>

NextLike ==
  \/ \E ok \in BOOLEAN : CountThreads(ok)
  \/ \E ok \in BOOLEAN : ScrollIntoView(ok)
  \/ \E ok \in BOOLEAN : CountLikeButton(ok)
  \/ \E ok \in BOOLEAN : CountLikeAria(ok)
  \/ \E ok \in BOOLEAN : Click(ok)

SpecLike == InitLike /\ [][NextLike]_vars

(* ---------------- SpecCtl: ChromeController ----------------------------- *)
\* One ChromeController object after __init__ and the calls made on it:
\* ensure_browser (with _launch_chrome and its wait loop) and cleanup.  Around
\* it another Chrome may open or close the CDP port at any time, and the
\* Chrome the controller spawned may open the port or exit.  ops records the
\* calls and every spawn, terminate and kill they make.
MaxCtlCalls == 3
PollLimit == 20

ctlOthers == <<orchVars, rlVars, ledVars, runVars, timeVars, discVars, likeVars, llmVars, readVars>>

InitCtl ==
  /\ OrchPinned("controller")
  /\ RLPinned
  /\ LedIdle
  /\ ReadIdle
  /\ LLMIdle
  /\ RunIdle
  /\ TimeIdle
  /\ DiscIdle
  /\ LikeIdle
  /\ port \in {"closed", "external"}
  /\ process = "None"
  /\ is_external_process = FALSE
  /\ cpc = "idle"
  /\ polls = 0
  /\ ops = <<>>
  /\ ctl_calls = 0
  /\ ret = "none"

\* _is_cdp_port_open(): GET /json/version answers 200
is_cdp_port_open == port # "closed"
CanCall == pc = "controller" /\ cpc = "idle" /\ ctl_calls < MaxCtlCalls

\* ensure_browser, the port open: attach
EnsureBrowserAttach ==
  /\ CanCall
  /\ is_cdp_port_open
  /\ is_external_process' = TRUE
  /\ ops' = ops \o <<"ensure_browser", "attach">>
  /\ ctl_calls' = ctl_calls + 1
  /\ ret' = "url"
  /\ UNCHANGED <<ctlOthers, port, process, cpc, polls>>

\* ensure_browser, the port closed: _launch_chrome up to subprocess.Popen,
\* which raises OSError when the executable cannot be run
EnsureBrowserLaunch(ok) ==
  /\ CanCall
  /\ ~is_cdp_port_open
  /\ ctl_calls' = ctl_calls + 1
  /\ IF ok
       THEN /\ process' = "running"
            /\ ops' = ops \o <<"ensure_browser", "spawn">>
            /\ cpc' = "polling"
            /\ polls' = 0
            /\ UNCHANGED ret
       ELSE /\ ops' = Append(ops, "ensure_browser")
            /\ ret' = "OSError"
            /\ UNCHANGED <<process, cpc, polls>>
  /\ UNCHANGED <<ctlOthers, port, is_external_process>>

\* one iteration of 'for _ in range(20)': return when the port answers,
\* sleep 0.5 s otherwise
Poll ==
  /\ pc = "controller"
  /\ cpc = "polling"
  /\ polls < PollLimit
  /\ IF is_cdp_port_open
       THEN /\ ret' = "url"
            /\ cpc' = "idle"
            /\ UNCHANGED polls
       ELSE /\ polls' = polls + 1
            /\ UNCHANGED <<ret, cpc>>
  /\ UNCHANGED <<ctlOthers, port, process, is_external_process, ops, ctl_calls>>

\* PollTimeout that returns as if the port had answered
PollTimeout_reports_ready ==
  /\ pc = "controller"
  /\ cpc = "polling"
  /\ polls = PollLimit
  /\ ret' = "url"
  /\ cpc' = "idle"
  /\ UNCHANGED <<ctlOthers, port, process, is_external_process, polls, ops, ctl_calls>>

\* the loop ran out: self._process.terminate(); raise RuntimeError
PollTimeout ==
  /\ pc = "controller"
  /\ cpc = "polling"
  /\ polls = PollLimit
  /\ ops' = Append(ops, "terminate")
  /\ process' = "exited"
  /\ port' = IF port = "own" THEN "closed" ELSE port
  /\ ret' = "RuntimeError"
  /\ cpc' = "idle"
  /\ UNCHANGED <<ctlOthers, is_external_process, polls, ctl_calls>>

\* CleanupStart without the test of _is_external_process
CleanupStart_any_process ==
  /\ CanCall
  /\ ctl_calls' = ctl_calls + 1
  /\ IF process # "None"
       THEN /\ ops' = ops \o <<"cleanup", "terminate">>
            /\ cpc' = "wait"
            /\ UNCHANGED ret
       ELSE /\ ops' = Append(ops, "cleanup")
            /\ ret' = "None"
            /\ UNCHANGED cpc
  /\ UNCHANGED <<ctlOthers, port, process, is_external_process, polls>>

\* cleanup: if not self._is_external_process and self._process: terminate()
CleanupStart ==
  /\ CanCall
  /\ ctl_calls' = ctl_calls + 1
  /\ IF ~is_external_process /\ process # "None"
       THEN /\ ops' = ops \o <<"cleanup", "terminate">>
            /\ cpc' = "wait"
            /\ UNCHANGED ret
       ELSE /\ ops' = Append(ops, "cleanup")
            /\ ret' = "None"
            /\ UNCHANGED cpc
  /\ UNCHANGED <<ctlOthers, port, process, is_external_process, polls>>

\* self._process.wait(timeout=5); on TimeoutExpired self._process.kill()
CleanupWait(exited) ==
  /\ pc = "controller"
  /\ cpc = "wait"
  /\ ops' = IF exited THEN ops ELSE Append(ops, "kill")
  /\ process' = "exited"
  /\ port' = IF port = "own" THEN "closed" ELSE port
  /\ ret' = "None"
  /\ cpc' = "idle"
  /\ UNCHANGED <<ctlOthers, is_external_process, polls, ctl_calls>>

\* another Chrome starts listening on the port, or stops
ExternalOpens ==
  /\ pc = "controller"
  /\ port = "closed"
  /\ port' = "external"
  /\ UNCHANGED <<ctlOthers, process, is_external_process, cpc, polls, ops, ctl_calls, ret>>

ExternalCloses ==
  /\ pc = "controller"
  /\ port = "external"
  /\ port' = "closed"
  /\ UNCHANGED <<ctlOthers, process, is_external_process, cpc, polls, ops, ctl_calls, ret>>

\* the spawned Chrome starts listening on the port
OwnOpens ==
  /\ pc = "controller"
  /\ process = "running"
  /\ port = "closed"
  /\ port' = "own"
  /\ UNCHANGED <<ctlOthers, process, is_external_process, cpc, polls, ops, ctl_calls, ret>>

\* the spawned Chrome exits by itself
OwnExits ==
  /\ pc = "controller"
  /\ process = "running"
  /\ process' = "exited"
  /\ port' = IF port = "own" THEN "closed" ELSE port
  /\ UNCHANGED <<ctlOthers, is_external_process, cpc, polls, ops, ctl_calls, ret>>

NextCtl ==
  \/ EnsureBrowserAttach
  \/ \E ok \in BOOLEAN : EnsureBrowserLaunch(ok)
  \/ Poll
  \/ PollTimeout
  \/ CleanupStart
  \/ \E exited \in BOOLEAN : CleanupWait(exited)
  \/ ExternalOpens
  \/ ExternalCloses
  \/ OwnOpens
  \/ OwnExits

SpecCtl == InitCtl /\ [][NextCtl]_vars

(* ---------------- SpecLLM: RetryLLM ------------------------------------- *)
\* One RetryLLM object: __init__ and the calls of try_next_model made on it.
\* A model stands for whether _create_llm_instance returns an instance for it
\* or raises.  Indices are 0-based as in the code; the recursion of
\* try_next_model is one Attempt step per level.
MaxModels == 4
MaxLlmCalls == 3
ModelLists == UNION {[1..k -> BOOLEAN] : k \in 1..MaxModels}
NoLlm == -1
\* self._create_llm_instance(self.models_to_try[i]) returns
Creatable(i) == models_to_try[i + 1]

llmOthers == <<orchVars, rlVars, ledVars, runVars, timeVars, discVars, likeVars, ctlVars, readVars>>

InitLLM ==
  /\ OrchPinned("llm")
  /\ RLPinned
  /\ LedIdle
  /\ ReadIdle
  /\ RunIdle
  /\ TimeIdle
  /\ DiscIdle
  /\ LikeIdle
  /\ CtlIdle
  /\ models_to_try \in ModelLists
  /\ current_model_index = 0
  /\ llm = NoLlm
  /\ mpc = "new"
  /\ mret = "none"
  /\ tried = <<>>
  /\ entry = [index |-> 0, llm |-> NoLlm]
  /\ llm_calls = 0

\* RetryLLM.__init__: the primary model; its exception leaves no object
NewRetryLLM ==
  /\ pc = "llm"
  /\ mpc = "new"
  /\ tried' = <<0>>
  /\ IF Creatable(0)
       THEN llm' = 0 /\ mret' = "RetryLLM" /\ mpc' = "idle"
       ELSE mret' = "ValueError" /\ mpc' = "no_object" /\ UNCHANGED llm
  /\ UNCHANGED <<llmOthers, models_to_try, current_model_index, entry, llm_calls>>

\* a caller calls try_next_model()
CallTryNextModel ==
  /\ pc = "llm"
  /\ mpc = "idle"
  /\ llm_calls < MaxLlmCalls
  /\ llm_calls' = llm_calls + 1
  /\ entry' = [index |-> current_model_index, llm |-> llm]
  /\ mpc' = "trying"
  /\ UNCHANGED <<llmOthers, models_to_try, current_model_index, llm, mret, tried>>

\* Attempt that gives up at the first model it cannot create
Attempt_no_recursion ==
  /\ pc = "llm"
  /\ mpc = "trying"
  /\ current_model_index' = current_model_index + 1
  /\ IF current_model_index' >= Len(models_to_try)
       THEN mret' = "False" /\ mpc' = "idle" /\ UNCHANGED <<llm, tried>>
       ELSE /\ tried' = Append(tried, current_model_index')
            /\ mpc' = "idle"
            /\ IF Creatable(current_model_index')
                 THEN llm' = current_model_index' /\ mret' = "True"
                 ELSE mret' = "False" /\ UNCHANGED llm
  /\ UNCHANGED <<llmOthers, models_to_try, entry, llm_calls>>

\* one level of try_next_model: the index moves on; past the end: return
\* False; the instance is created: return True; creation raised: the call
\* calls itself
Attempt ==
  /\ pc = "llm"
  /\ mpc = "trying"
  /\ current_model_index' = current_model_index + 1
  /\ IF current_model_index' >= Len(models_to_try)
       THEN mret' = "False" /\ mpc' = "idle" /\ UNCHANGED <<llm, tried>>
       ELSE /\ tried' = Append(tried, current_model_index')
            /\ IF Creatable(current_model_index')
                 THEN llm' = current_model_index' /\ mret' = "True" /\ mpc' = "idle"
                 ELSE UNCHANGED <<llm, mret, mpc>>
  /\ UNCHANGED <<llmOthers, models_to_try, entry, llm_calls>>

NextLLM ==
  \/ NewRetryLLM
  \/ CallTryNextModel
  \/ Attempt

SpecLLM == InitLLM /\ [][NextLLM]_vars

\* try_next_model is synchronous code: once called, each level runs
SpecLLMFair == SpecLLM /\ WF_vars(Attempt)

(* ---------------- SpecRead: read_comments and the comment loop ---------- *)
\* The posts of a run are read one after the other: read_comments navigates,
\* opens the Shorts panel where the URL is a Short, runs the page script and
\* converts its records into Comment objects; the comment loop then calls
\* like_comment(idx) for every comment whose id is not in the ledger and
\* marks it (a real run, one like action, every call succeeding).  A thread of
\* a page has an id attribute or not, an author and text (body), and a
\* timestamp text from which a Comment can be built or not.
Min(a, b) == IF a < b THEN a ELSE b

MaxPageThreads == 2
MaxMaxComments == 2
Bodies == {"x", "y"}
PageThreads == [has_id : BOOLEAN, body : Bodies, converts : BOOLEAN]
ReadPages(n) == [short : BOOLEAN, panel : BOOLEAN, threads : SeqsUpTo(PageThreads, n)]
\* the id attribute of thread k of post p: ids of the page are unique
DomId(p, k) == [dom |-> TRUE, post |-> p, n |-> k]
\* `comment_${i}`, i counted from 0
SynthId(i) == [dom |-> FALSE, post |-> 0, n |-> i]
\* thread.getAttribute('id') || `comment_${i}`
commentId(p, k) == IF pages[p].threads[k].has_id THEN DomId(p, k) ELSE SynthId(k - 1)
\* the page script: the first min(threads.length, maxComments) threads
PageScript(p) ==
  [k \in 1..Min(Len(pages[p].threads), max_comments) |->
     [id |-> commentId(p, k), body |-> pages[p].threads[k].body, post |-> p, thread |-> k,
      converts |-> pages[p].threads[k].converts]]
\* the loop that builds the Comment objects: a record that raises is left out
ToComments(data) ==
  LET kept == SelectSeq(data, LAMBDA c : c.converts)
  IN [k \in 1..Len(kept) |->
        [id |-> kept[k].id, body |-> kept[k].body, post |-> kept[k].post, thread |-> kept[k].thread]]

readOthers == <<orchVars, rlVars, ledVars, runVars, timeVars, discVars, likeVars, ctlVars, llmVars>>

InitRead ==
  /\ OrchPinned("read")
  /\ RLPinned
  /\ LedIdle
  /\ RunIdle
  /\ TimeIdle
  /\ DiscIdle
  /\ LikeIdle
  /\ CtlIdle
  /\ LLMIdle
  /\ \E a \in ReadPages(MaxPageThreads), b \in ReadPages(MaxPageThreads - 1) : pages = <<a, b>>
  /\ \A p \in 1..Len(pages) : pages[p].panel => pages[p].short
  /\ max_comments \in 1..MaxMaxComments
  /\ pi = 1
  /\ rdpc = "navigate"
  /\ gotos = <<>>
  /\ comment_data = <<>>
  /\ read_out = <<>>
  /\ li = 1
  /\ likes = <<>>
  /\ ledger_ids = {}

\* self._is_short = "/shorts/" in url; await self.navigate_to_url(url)
Navigate ==
  /\ pc = "read"
  /\ rdpc = "navigate"
  /\ gotos' = Append(gotos, [post |-> pi, url |-> IF pages[pi].short THEN "shorts" ELSE "watch"])
  /\ rdpc' = IF pages[pi].short THEN "panel" ELSE "script"
  /\ UNCHANGED <<readOthers, pages, max_comments, pi, comment_data, read_out, li, likes, ledger_ids>>

\* if not await self._open_shorts_comments(): return []  ('No comments found')
OpenShortsComments ==
  /\ pc = "read"
  /\ rdpc = "panel"
  /\ IF pages[pi].panel
       THEN rdpc' = "script" /\ UNCHANGED <<read_out, li>>
       ELSE /\ read_out' = Append(read_out, <<>>)
            /\ li' = 1
            /\ rdpc' = "loop"
  /\ UNCHANGED <<readOthers, pages, max_comments, pi, gotos, comment_data, likes, ledger_ids>>

\* comment_data = await self.page.evaluate(...)
EvaluateScript ==
  /\ pc = "read"
  /\ rdpc = "script"
  /\ comment_data' = PageScript(pi)
  /\ rdpc' = "convert"
  /\ UNCHANGED <<readOthers, pages, max_comments, pi, gotos, read_out, li, likes, ledger_ids>>

\* the conversion loop and return comments
ConvertComments ==
  /\ pc = "read"
  /\ rdpc = "convert"
  /\ read_out' = Append(read_out, ToComments(comment_data))
  /\ li' = 1
  /\ rdpc' = "loop"
  /\ UNCHANGED <<readOthers, pages, max_comments, pi, gotos, comment_data, likes, ledger_ids>>

\* for idx, comment in enumerate(comments, 1): skip a processed id, else
\* like_comment(idx), which clicks in threads.nth(idx - 1), and mark the id
LoopComment ==
  /\ pc = "read"
  /\ rdpc = "loop"
  /\ li <= Len(read_out[pi])
  /\ LET c == read_out[pi][li]
     IN IF is_comment_processed(ledger_ids, c.id)
          THEN /\ likes' = Append(likes, [ev |-> "skip", comment |-> c, idx |-> li, hit |-> 0, gotos |-> Len(gotos)])
               /\ UNCHANGED ledger_ids
          ELSE /\ likes' = Append(likes, [ev |-> "like", comment |-> c, idx |-> li, hit |-> li, gotos |-> Len(gotos)])
               /\ ledger_ids' = mark_comment_processed(ledger_ids, c.id)
  /\ li' = li + 1
  /\ UNCHANGED <<readOthers, pages, max_comments, pi, rdpc, gotos, comment_data, read_out>>

\* the next post of the run
NextPost ==
  /\ pc = "read"
  /\ rdpc = "loop"
  /\ li > Len(read_out[pi])
  /\ IF pi < Len(pages)
       THEN pi' = pi + 1 /\ rdpc' = "navigate"
       ELSE rdpc' = "done" /\ UNCHANGED pi
  /\ UNCHANGED <<readOthers, pages, max_comments, gotos, comment_data, read_out, li, likes, ledger_ids>>

NextRead ==
  \/ Navigate
  \/ OpenShortsComments
  \/ EvaluateScript
  \/ ConvertComments
  \/ LoopComment
  \/ NextPost

SpecRead == InitRead /\ [][NextRead]_vars

(* ------------------------------ claims -------------------------------- *)
Calls(l) == {i \in 1..Len(l) : l[i].ev = "call"}
Successes(l) == {i \in 1..Len(l) : l[i].ev = "call" /\ l[i].res = "true"}
Saves(l) == {i \in 1..Len(l) : l[i].ev = "save"}
WritesSucceeded(l) == \A i \in Saves(l) : l[i].res = "ok"

\* C1 (as claimed): no run calls the provider for a comment id that an earlier
\* run marked processed and wrote to the state file with save().
C1_CrossRunIdempotence ==
  \A i \in Calls(log) : log[i].id \notin savedBefore

\* C2: within one real run, once mark_comment_processed(c) has been called no
\* later step of that run calls the action provider for id c.
C2_NoRedispatchAfterMark ==
  \A i, j \in 1..Len(log) :
    (i < j /\ log[i].ev = "mark" /\ log[j].ev = "call") => log[j].id # log[i].id

C2_Witness ==
  \E i, j \in 1..Len(log) :
    /\ i < j
    /\ log[i].ev = "mark"
    /\ log[j].ev = "skip"
    /\ log[j].id = log[i].id

\* C3: a dry run never calls the action provider, never awaits wait_if_needed,
\* never marks and never saves; the ledger sets and the state file are as they
\* were when the run started.
C3_DryRunNoSideEffects ==
  (run >= 1 /\ dry_run) =>
    /\ \A i \in 1..Len(log) : log[i].ev \notin {"wait", "call", "mark", "save"}
    /\ processed_comments = startComments
    /\ processed_videos = LoadVideos(startFile)
    /\ file = startFile

C3_Witness ==
  /\ dry_run
  /\ pc = "idle"
  /\ reported >= 2
  /\ startComments # {}

\* C4 (as claimed): an action spec of type heart is dispatched with heart_comment
\* and never like_comment, one of type like with like_comment and never
\* heart_comment.
C4_HeartLikeDispatch ==
  \A i \in Calls(log) :
    log[i].meth = (IF log[i].act = "heart" THEN "heart_comment" ELSE "like_comment")

\* C8: every successful dispatch is followed at once by mark_comment_processed
\* and one save(), before any other wait or provider call; saves and successful
\* dispatches are equal in number; and while every write succeeded at most the
\* one in-flight action is missing from the state file.
C8_FlushPerAction ==
  /\ \A i \in Successes(log) :
       \/ i = Len(log) /\ pc = "record"
       \/ /\ i + 2 <= Len(log)
          /\ log[i + 1].ev = "mark" /\ log[i + 1].id = log[i].id
          /\ log[i + 2].ev = "save"
  /\ \A i \in Saves(log) : i > 2 /\ (i - 2) \in Successes(log)
  /\ Cardinality(Saves(log)) =
       Cardinality(Successes(log)) - (IF pc = "record" /\ success THEN 1 ELSE 0)
  /\ WritesSucceeded(log) =>
       Cardinality({log[i].id : i \in Successes(log)} \ LoadComments(file)) <= 1

C8_Witness ==
  /\ pc = "record"
  /\ success
  /\ Cardinality(Saves(log)) >= 1
  /\ WritesSucceeded(log)
  /\ log[Len(log)].id \notin LoadComments(file)

\* C9 (as claimed): no step, a failed or interrupted save() included, removes
\* from what loading the state file yields an id that it yielded before.
C9_SaveKeepsDurable ==
  [][/\ LoadComments(file) \subseteq LoadComments(file')
     /\ LoadVideos(file) \subseteq LoadVideos(file')]_vars

\* C10 (as claimed): when the state file cannot be written, save() reports an
\* I/O error that reaches the caller of the run.
C10_PersistFailureSurfaced ==
  \A i \in Saves(log) :
    log[i].res \in {"open_fail", "write_fail"} => error # "none"

Max0(x) == IF x > 0 THEN x ELSE 0

\* C5: with actions_per_minute = N >= 1 the (k+N)-th recorded timestamp is at
\* least 60 s later than the k-th: no 60-second window holds more than N.
C5_RateCeiling ==
  rl.actions_per_minute >= 1 =>
    \A k \in 1..Len(recorded) :
      k + rl.actions_per_minute <= Len(recorded) =>
        recorded[k + rl.actions_per_minute] - recorded[k] >= WindowSecs

C5_Witness ==
  /\ rl.actions_per_minute >= 1
  /\ Len(recorded) >= rl.actions_per_minute + 2
  /\ Len(lastCall.sleeps) = 2

\* the timestamps recorded before the last call that were younger than 60 s
\* when it began
KeptByLastCall ==
  {i \in 1..(Len(recorded) - 1) : recorded[i] > lastCall.now0 - WindowSecs}
OldestKept ==
  recorded[CHOOSE i \in KeptByLastCall : \A j \in KeptByLastCall : i <= j]
CeilingSlept == IF Len(lastCall.sleeps) = 2 THEN lastCall.sleeps[1] ELSE 0

\* C6: a call that finds fewer than actions_per_minute timestamps younger than
\* 60 s sleeps only the jitter; one that finds at least that many first sleeps
\* max(0, oldest retained + 60 - now).
C6_CeilingWaitRule ==
  (rl.actions_per_minute >= 1 /\ Len(recorded) >= 1) =>
    /\ Len(lastCall.sleeps) \in {1, 2}
    /\ IF Cardinality(KeptByLastCall) < rl.actions_per_minute
         THEN CeilingSlept = 0
         ELSE CeilingSlept = Max0(OldestKept + WindowSecs - lastCall.now0)

C6_Witness ==
  /\ rl.actions_per_minute = 2
  /\ Len(recorded) = 3
  /\ recorded[2] > recorded[1]
  /\ recorded[3] - recorded[1] <= WindowSecs + rl.max_delay
  /\ CeilingSlept > 0

\* C7: every call sleeps a jitter d with min_delay <= d <= max_delay before it
\* records, so consecutive recorded timestamps are at least min_delay apart.
C7_JitterAlways ==
  /\ \A k \in 1..(Len(recorded) - 1) : recorded[k + 1] - recorded[k] >= rl.min_delay
  /\ Len(recorded) >= 1 =>
       /\ lastCall.sleeps # <<>>
       /\ lastCall.sleeps[Len(lastCall.sleeps)] \in rl.min_delay..rl.max_delay
       /\ recorded[Len(recorded)] - lastCall.now0 >= rl.min_delay

C7_Witness ==
  /\ rl.min_delay >= 1
  /\ Len(recorded) >= 2
  /\ Len(lastCall.sleeps) = 1
  /\ recorded[Len(recorded)] - recorded[Len(recorded) - 1] = rl.min_delay

\* a file _load has nothing to object to: a JSON object whose two id fields are
\* lists or missing and whose last_run is an ISO string, empty or missing
WellFormed(d) ==
  /\ d.kind = "object"
  /\ d.processed_videos.t \in {"list", "missing"}
  /\ d.processed_comments.t \in {"list", "missing"}
  /\ d.last_run \in {"iso", "empty", "missing"}

\* C11: an object constructed on the file right after a save() of another
\* object wrote it holds exactly the two sets that object held, and the
\* constructor raises nothing.
C11_LedgerRoundTrip ==
  lpc = "reloaded" =>
    /\ raised = "none"
    /\ processed_videos = saved.videos
    /\ processed_comments = saved.comments

C11_Witness ==
  /\ lpc = "reloaded"
  /\ processed_videos # {}
  /\ Cardinality(processed_comments) >= 2
  /\ processed_videos # processed_comments

\* C12 (as claimed): whatever the state file holds, the constructor raises
\* nothing, and unless the file is well-formed the object starts with both
\* sets empty.
C12_LenientLoad ==
  lpc \in {"loaded", "reloaded"} =>
    /\ raised = "none"
    /\ ~WellFormed(store) => (processed_videos = {} /\ processed_comments = {})

Marks(l) == {i \in 1..Len(l) : l[i].ev = "mark"}
Killed == log # <<>> /\ log[Len(log)].res = "killed"
\* the comments counted so far in the run: the posts done and the post at hand
Counted == total_processed + (IF pc \in {"comment", "dispatch", "record"} THEN processed ELSE 0)
FailedCall == pc = "record" /\ ~success

C13_Ledger ==
  /\ \A i \in Calls(log) :
       (log[i].res = "false" /\ i < Len(log)) => log[i + 1].ev \notin {"mark", "save"}
  /\ (~dry_run /\ ~Killed) => Counted = Cardinality(Marks(log))

C13_Step ==
  FailedCall =>
    /\ processed_comments' = processed_comments
    /\ file' = file
    /\ log' = log
    /\ processed' = processed
    /\ total_processed' = total_processed
    /\ error' = error
    /\ pc' = "comment"
    /\ vi' = vi
    /\ ci' = ci + 1

\* C13: when the provider call returns False the step that follows marks
\* nothing, saves nothing, counts nothing, raises nothing and moves to the next
\* comment of the same post; in a run's log no mark or save follows a failed
\* call, and a real run counts exactly the comments it marked.
C13_DispatchFailureNotFatal == [](C13_Ledger) /\ [][C13_Step]_vars

\* a failed call was followed by a dispatch for the next comment of the post
C13_Witness ==
  /\ ~dry_run
  /\ \E i \in Calls(log) :
       /\ log[i].res = "false"
       /\ i + 2 <= Len(log)
       /\ log[i + 1].ev = "wait"
       /\ log[i + 1].idx = log[i].idx + 1
       /\ log[i + 2].ev = "call"
       /\ log[i + 2].res = "true"
       /\ log[i].id \notin processed_comments

RunEnded == run >= 1 /\ pc = "idle"

\* C14 (as claimed): every run that ends, the process not having been killed,
\* ends with the summary count printed and with no exception leaving
\* engage_with_scenario, whatever the provider did.
C14_RunAlwaysCompletes ==
  (RunEnded /\ ~Killed) => (error = "none" /\ reported >= 0)

\* the posts read_comments was called for in the run
ReadIdx(l) == {l[i].idx : i \in {j \in 1..Len(l) : l[j].ev = "read"}}
AtNoUrlPost == pc = "post" /\ vi <= Len(videos) /\ ~videos[vi].url

C16_Reads ==
  /\ \A j \in ReadIdx(log) : videos[j].url
  /\ \A j \in 1..Len(videos) : (j < vi /\ videos[j].url) => j \in ReadIdx(log)
  /\ \A i \in 1..Len(log) : log[i].ev # "read" => \E j \in 1..(i - 1) : log[j].ev = "read"

C16_Step ==
  AtNoUrlPost =>
    /\ log' = log
    /\ total_processed' = total_processed
    /\ processed_comments' = processed_comments
    /\ file' = file
    /\ error' = error
    /\ pc' = "post"
    /\ vi' = vi + 1

\* C16: at a post without a URL the only step moves to the next post: no
\* read_comments, wait or provider call is made, nothing is counted and the run
\* is not aborted; read_comments is called for exactly the posts passed so far
\* that have a URL, those after a post without URL included.
C16_NoUrlPostSkipped == [](C16_Reads) /\ [][C16_Step]_vars

\* a post without URL was skipped and the post after it got a provider call
C16_Witness ==
  /\ Len(videos) = 2
  /\ ~videos[1].url
  /\ vi = 2
  /\ ReadIdx(log) = {2}
  /\ Successes(log) # {}

InTrace(e) == \E i \in 1..Len(trace) : trace[i] = e
BadInvocation == ~inv.profile \/ ~inv.scenario

\* C15: a call with a profile name or a scenario name the configuration lacks
\* makes no call after load_config - no ChromeController, no EngagementState (the
\* ledger file is not read), no ensure_browser, list_videos or read_comments -
\* and ends in sys.exit(1).
C15_FailFast ==
  BadInvocation =>
    /\ \A i \in 1..Len(trace) : trace[i] = "load_config"
    /\ ~browser
    /\ rpc \in {"load_config", "check_profile", "check_scenario", "done"}
    /\ rpc = "done" => exc = "SystemExit(1)"

C15_Witness ==
  /\ inv.profile
  /\ ~inv.scenario
  /\ rpc = "done"
  /\ exc = "SystemExit(1)"

\* the units as the claim gives them: 1 s, 60 s, 3600 s, 1 day, 7 days, 30
\* days, 365 days
UnitDur ==
  [u \in UnitNames |->
     CASE u = "second" -> [days |-> 0, secs |-> 1]
       [] u = "minute" -> [days |-> 0, secs |-> 60]
       [] u = "hour" -> [days |-> 0, secs |-> 3600]
       [] u = "day" -> [days |-> 1, secs |-> 0]
       [] u = "week" -> [days |-> 7, secs |-> 0]
       [] u = "month" -> [days |-> 30, secs |-> 0]
       [] u = "year" -> [days |-> 365, secs |-> 0]]
Times(n, dur) == timedelta(n * dur.days, n * dur.secs)
Plus(t, dl) ==
  [days |-> t.days + dl.days + ((t.secs + dl.secs) \div SecsPerDay),
   secs |-> (t.secs + dl.secs) % SecsPerDay]
\* the call returned T - n*u
ReturnedAgo(n, u) == parsed.raised = "none" /\ Plus(parsed.at, Times(n, UnitDur[u])) = clock
\* C20 (as claimed): the call on "<n> <unit> ago", in any letter case, singular
\* or plural, with any blanks around, returns T - n*u for the instant T the
\* clock shows; on "just now" and "moments ago" it returns T.
C20_TimeNormalization ==
  parsed # NotParsed =>
    /\ given.kind = "ago" => ReturnedAgo(given.amount, given.unit)
    /\ given.kind = "now" => parsed = Returned(clock)

Fetched == dpc \in {"loop", "done"}
Items == [i \in 1..Len(page) |-> i]
\* the normalized 'posted' time of item i is at or after t
PostedSince(i, t) ==
  LET r == parse_relative_time(page[i], clock)
  IN r.raised = "none" /\ Geq(r.at, t)
DaysBefore(t, d) == [days |-> t.days - d, secs |-> t.secs]
IsPrefix(a, b) == Len(a) <= Len(b) /\ a = SubSeq(b, 1, Len(a))

\* C17 (as claimed): with recent_days and limit d >= 0 the videos that reach
\* the per-post loop are the items of the page, in page order, whose
\* normalized 'posted' time is at or after now - d days, and only those are
\* visited.
C17_RecentDaysFilter ==
  (discovery.method = "recent_days" /\ Fetched) =>
    /\ reached = SelectSeq(Items, LAMBDA i : PostedSince(i, DaysBefore(clock, discovery.limit)))
    /\ IsPrefix(visited, reached)

\* the text is neither just now / moments ago nor matched by the pattern
Unparsable(str) ==
  LET s == Strip(Lower(str))
  IN s \notin {JustNow, MomentsAgo} /\ ~Match(s).ok

\* C18 (as claimed): with recent_days and a limit of at least one day no item
\* whose 'posted' text cannot be parsed reaches the per-post loop.
C18_UnparsableExcluded ==
  (discovery.method = "recent_days" /\ discovery.limit >= 1 /\ Fetched) =>
    \A k \in 1..Len(reached) : ~Unparsable(page[reached[k]])

\* C19: with recent_posts and limit L the videos that reach the per-post loop
\* are the first min(L, n) items of the page, in page order; they are visited
\* in that order, never more than L of them, and all of them by the end.
C19_RecentPostsTruncation ==
  (discovery.method = "recent_posts" /\ Fetched) =>
    /\ reached = SubSeq(Items, 1, Min(discovery.limit, Len(page)))
    /\ IsPrefix(visited, reached)
    /\ Len(visited) <= discovery.limit
    /\ dpc = "done" => visited = reached

C19_Witness ==
  /\ discovery.method = "recent_posts"
  /\ discovery.limit = 2
  /\ Len(page) = 3
  /\ dpc = "done"
  /\ visited = <<1, 2>>

\* the position just after what the pattern matches at the start of s, 0 if
\* it matches nothing
MatchEnd(s) ==
  LET mt == Match(s)
      k == Len(mt.amount)
      p == k + RunLen(s, k + 1, Whitespace) + 1
      q == p + Len(UnitWord[mt.unit])
      r == IF HasAt(s, q, <<"s">>) THEN q + 1 ELSE q
  IN IF mt.ok THEN r + RunLen(s, r, Whitespace) + Len(Ago) ELSE 0
\* the string, letter case and blanks around set aside, is "<integer> <unit> ago"
\* or "<integer> <unit>s ago" and nothing else
OfAgoShape(str) ==
  LET s == Strip(Lower(str))
  IN Match(s).ok /\ MatchEnd(s) = Len(s) + 1
IsJustNow(str) == Strip(Lower(str)) \in {JustNow, MomentsAgo}

\* C21 (as claimed): on every string that is neither "just now" / "moments
\* ago" nor of the shape "<integer> <unit> ago" the call does not raise and
\* returns the instant the clock shows.
C21_LenientFallback ==
  (parsed # NotParsed /\ ~IsJustNow(relative_str) /\ ~OfAgoShape(relative_str)) =>
    parsed = Returned(clock)

\* C22 (as claimed): two calls with the same phrase return the same absolute
\* time; the result depends on the phrase and the instant the caller has in
\* hand, not on a clock the function reads.
C22_PureOfPhraseAndInstant ==
  (parsed # NotParsed /\ again # NotParsed) => again = parsed

\* a provider call of the run returned False
SomeCallFailed == \E i \in Calls(log) : log[i].res = "false"
\* a real run has printed its summary, every dispatch of it succeeded, and the
\* run before it was a dry run that printed its summary and started with the
\* same ledger (the scenario and the content are those of the model's run)
RealAfterDry ==
  /\ pc = "idle"
  /\ ~dry_run
  /\ reported >= 0
  /\ ~SomeCallFailed
  /\ prior.dry_run
  /\ prior.reported >= 0
  /\ prior.comments = startComments

\* C23 (as claimed): for the same scenario, starting ledger and content the
\* count a dry run reports equals the count reported by a real run in which
\* every dispatch succeeds.
C23_DryRunPredictsRealRun == RealAfterDry => reported = prior.reported

AtReply == ActionLeft /\ actions[ai] = "reply"
LikeSpecs == {a \in 1..Len(actions) : actions[a] \in {"like", "heart"}}
Unmarked == {i \in 1..Len(comments) : ~is_comment_processed(processed_comments, comments[i])}
PostDone == pc = "comment" /\ ai > Len(actions)
C24_State ==
  /\ \A i \in 1..Len(log) : log[i].act # "reply"
  /\ (PostDone /\ dry_run) => processed = Cardinality(LikeSpecs) * Cardinality(Unmarked)
  /\ (PostDone /\ ~dry_run /\ LikeSpecs # {} /\ ~SomeCallFailed) => Unmarked = {}
C24_Step ==
  AtReply =>
    /\ ai' = ai + 1
    /\ UNCHANGED <<pc, error, vi, ci, comments, processed, total_processed, log,
                   processed_videos, processed_comments, file, reported>>

\* C24: an action spec of type reply raises nothing and is not executed: the
\* step over it makes no provider call and no rate-limiter wait (the log is
\* unchanged and never holds an event of a reply), changes neither the ledger
\* nor the file nor the count, and goes on to the next action spec; the like
\* and heart specs of the scenario are executed all the same: a dry run
\* counts each of them for every unmarked comment, a real run whose calls
\* succeed leaves no comment of the post unmarked.
C24_ReplyNotExecuted == [](C24_State) /\ [][C24_Step]_vars

\* a real run passed a reply spec and then liked a comment under the like
\* spec that follows it
C24_Witness ==
  /\ actions = <<"reply", "like">>
  /\ ~dry_run
  /\ PostDone
  /\ processed = 1
  /\ \E i \in Successes(log) : log[i].act = "like"

C25_Step ==
  \A x \in Ids :
    /\ MarkVideo(x) =>
         /\ is_video_processed(processed_videos', x)
         /\ is_video_processed(processed_videos, x) =>
              UNCHANGED <<processed_videos, processed_comments>>
    /\ MarkComment(x) =>
         /\ is_comment_processed(processed_comments', x)
         /\ is_comment_processed(processed_comments, x) =>
              UNCHANGED <<processed_videos, processed_comments>>

\* C25: marking an id that is already marked leaves both processed sets as
\* they were, and right after mark_video_processed(x) / mark_comment_processed(x)
\* is_video_processed(x) / is_comment_processed(x) is true.
C25_MarkIdempotent == [][C25_Step]_vars

\* marks were made on an object that holds two videos and a comment, and every
\* one of them since the file was last read or written was of an id already
\* marked
C25_Witness ==
  /\ lpc = "marked"
  /\ processed_videos = Load(store).videos
  /\ processed_comments = Load(store).comments
  /\ Cardinality(processed_videos) = 2
  /\ processed_comments # {}

C26_Step ==
  \A x \in Ids :
    /\ MarkVideo(x) =>
         \A y \in Ids : is_comment_processed(processed_comments', y) = is_comment_processed(processed_comments, y)
    /\ MarkComment(x) =>
         \A y \in Ids : is_video_processed(processed_videos', y) = is_video_processed(processed_videos, y)
C26_Reloaded ==
  lpc = "reloaded" =>
    \A x \in Ids :
      /\ is_video_processed(processed_videos, x) = is_video_processed(saved.videos, x)
      /\ is_comment_processed(processed_comments, x) = is_comment_processed(saved.comments, x)

\* C26: marking x as a processed video never changes is_comment_processed of
\* any id, marking x as a processed comment never changes is_video_processed
\* of any id, and an object constructed on the file a completed save() wrote
\* answers both questions for every id as the saved object did.
C26_NamespacesIndependent == [](C26_Reloaded) /\ [][C26_Step]_vars

\* after save and reload id 1 is a processed video and not a processed
\* comment, id 2 a processed comment and not a processed video
C26_Witness ==
  /\ lpc = "reloaded"
  /\ is_video_processed(processed_videos, 1) /\ ~is_comment_processed(processed_comments, 1)
  /\ is_comment_processed(processed_comments, 2) /\ ~is_video_processed(processed_videos, 2)

\* C27: like_comment returns a boolean on every path: False when the index is
\* below 1 or above the number of comment threads, False when neither selector
\* finds a like button, False when a page operation raised, and True only
\* after the click on the like button completed.
C27_LikeReturnsBoolean ==
  kpc = "done" =>
    /\ returned \in {"True", "False"}
    /\ (liking.comment_index < 1 \/ liking.comment_index > thread_count(liking)) =>
         returned = "False"
    /\ (~liking.like_button /\ ~liking.like_aria) => returned = "False"
    /\ failed => returned = "False"
    /\ returned = "True" => clicked

\* the call on the second of two threads found the button under the
\* aria-label selector, clicked it and returned True
C27_Witness ==
  /\ kpc = "done"
  /\ returned = "True"
  /\ clicked
  /\ liking.comment_index = 2
  /\ ~liking.like_button

\* the ledger as it stood when event i of the run was logged
MarkedBefore(l, i) == startComments \cup {l[j].id : j \in {k \in Marks(l) : k < i}}
SameComment(a, b) == a.id = b.id /\ a.idx = b.idx /\ a.act = b.act
Reads(l) == {i \in 1..Len(l) : l[i].ev = "read"}
\* the events that open the loop body for a comment
Heads(l) == {i \in 1..Len(l) : l[i].ev \in {"skip", "wait"}}
Last(S) == CHOOSE i \in S : \A j \in S : j <= i
\* the post whose comments event i belongs to
PostOf(l, i) == l[Last({j \in Reads(l) : j < i})].idx

\* the steps of one dispatch, in order
C28_Steps ==
  \A i \in 1..Len(log) :
    /\ log[i].ev = "wait" =>
         /\ ~is_comment_processed(MarkedBefore(log, i), log[i].id)
         /\ i < Len(log) => (log[i + 1].ev = "call" /\ SameComment(log[i + 1], log[i]))
    /\ log[i].ev = "call" =>
         /\ i > 1 /\ log[i - 1].ev = "wait" /\ SameComment(log[i - 1], log[i])
         /\ (log[i].res = "true" /\ i < Len(log)) =>
              /\ i + 2 <= Len(log)
              /\ log[i + 1].ev = "mark" /\ SameComment(log[i + 1], log[i])
              /\ log[i + 2].ev = "save" /\ SameComment(log[i + 2], log[i])
         /\ (log[i].res = "false" /\ i < Len(log)) => log[i + 1].ev \in {"skip", "wait", "read"}
    /\ log[i].ev = "mark" => (i > 1 /\ log[i - 1].ev = "call" /\ log[i - 1].res = "true")
    /\ log[i].ev = "save" => (i > 1 /\ log[i - 1].ev = "mark")
    /\ log[i].ev = "skip" => is_comment_processed(MarkedBefore(log, i), log[i].id)
\* posts in the order of the list, comments in the order of the post
C28_Order ==
  /\ \A i, j \in Reads(log) : i < j => log[i].idx < log[j].idx
  /\ \A i \in Heads(log) :
       LET p == PostOf(log, i)
           earlier == {h \in Heads(log) : h < i /\ PostOf(log, h) = p}
       IN /\ log[i].idx \in 1..Len(videos[p].comments)
          /\ log[i].id = videos[p].comments[log[i].idx]
          /\ IF earlier = {} THEN log[i].idx = 1
             ELSE \/ log[i].idx = log[Last(earlier)].idx + 1
                  \/ log[Last(earlier)].idx = Len(videos[p].comments) /\ log[i].idx = 1

\* C28: in a real run wait_if_needed is called only for a comment that
\* is_comment_processed answered false for, the provider call follows it at
\* once and every provider call has exactly one wait right before it; a call
\* that returned True is followed by mark_comment_processed and then save of
\* that comment, a call that returned False by neither; a skipped comment gets
\* no wait; posts are read in list order and the comments of a post are taken
\* in the order read_comments returned them, once per like/heart action spec.
C28_DispatchStepOrder == ~dry_run => (C28_Steps /\ C28_Order)

\* a real run skipped the first comment of a post and then waited, called,
\* marked and saved for the second
C28_Witness ==
  /\ ~dry_run
  /\ \E i \in 1..Len(log) :
       /\ i + 4 <= Len(log)
       /\ log[i].ev = "skip" /\ log[i].idx = 1
       /\ log[i + 1].ev = "wait" /\ log[i + 1].idx = 2
       /\ log[i + 2].ev = "call" /\ log[i + 2].res = "true"
       /\ log[i + 3].ev = "mark"
       /\ log[i + 4].ev = "save"

CountOf(e) == Cardinality({i \in 1..Len(trace) : trace[i] = e})

\* C29: once ensure_browser has been awaited, whether it returned or raised,
\* engage_with_scenario awaits controller.cleanup() exactly once, as the last
\* thing before it returns or lets the exception go on, and not before.
C29_CleanupOnce ==
  InTrace("ensure_browser") =>
    /\ rpc = "done" => (CountOf("cleanup") = 1 /\ trace[Len(trace)] = "cleanup")
    /\ rpc # "done" => CountOf("cleanup") = 0

\* read_comments raised in the loop, browser.stop() raised in the finally
\* block, cleanup was awaited and the provider's exception went on
C29_Witness ==
  /\ rpc = "done"
  /\ exc = "PlaywrightError"
  /\ InTrace("read_comments")
  /\ InTrace("browser.stop raised")
  /\ trace[Len(trace)] = "cleanup"

CallNames == {"ensure_browser", "cleanup"}
\* the call during which event j of ops happened
CallOf(j) == ops[Last({i \in 1..j : ops[i] \in CallNames})]
ByCleanup(j) == ops[j] \in {"terminate", "kill"} /\ CallOf(j) = "cleanup"
\* the step is a call of ensure_browser that finds the port open
EnsuresAtOpenPort ==
  /\ cpc = "idle"
  /\ is_cdp_port_open
  /\ Len(ops') > Len(ops)
  /\ ops'[Len(ops) + 1] = "ensure_browser"
C30_State ==
  \A j \in 1..Len(ops) :
    ByCleanup(j) =>
      /\ \A i \in 1..j : ops[i] # "attach"
      /\ \E i \in 1..j : ops[i] = "spawn"
C30_Step ==
  EnsuresAtOpenPort =>
    /\ ops' = ops \o <<"ensure_browser", "attach">>
    /\ process' = process
    /\ ret' = "url"

\* C30: ensure_browser called with the CDP port open spawns no process and
\* returns the CDP URL; no cleanup after such a call terminates or kills
\* anything, and a cleanup terminates or kills only after this controller
\* spawned a process.
C30_AttachDoesNotOwn == [](C30_State) /\ [][C30_Step]_vars

\* the controller attached to another Chrome, cleanup was called and that
\* Chrome still answers on the port
C30_Witness ==
  /\ ops = <<"ensure_browser", "attach", "cleanup">>
  /\ port = "external"
  /\ process = "None"
  /\ ret = "None"

\* the last call made on the controller was cleanup and it has returned
CleanupReturned == cpc = "idle" /\ ops # <<>> /\ CallOf(Len(ops)) = "cleanup"

\* C31 (as claimed): whatever ensure_browser calls came before, when cleanup
\* returns no Chrome process this controller spawned is still running.
C31_SpawnedChromeTerminated == CleanupReturned => process # "running"

Launching == cpc = "polling"
C32_State == Launching => (polls \in 0..PollLimit /\ process \in {"running", "exited"})
C32_Step ==
  Launching =>
    /\ polls' \in {polls, polls + 1}
    /\ (is_cdp_port_open /\ polls < PollLimit /\ polls' = polls /\ port' = port /\ process' = process) =>
         (cpc' = "idle" /\ ret' = "url" /\ ops' = ops)
    /\ (cpc' = "idle" /\ ret' = "url") => (is_cdp_port_open /\ polls < PollLimit)
    /\ (polls = PollLimit /\ cpc' # cpc) =>
         (ops' = Append(ops, "terminate") /\ ret' = "RuntimeError" /\ process' # "running")
    /\ cpc' = "idle" => (ret' \in {"url", "RuntimeError"})

\* C32: the wait loop of _launch_chrome makes at most 20 polls; a poll that
\* finds the port open ends the call with the URL at once, the call reports
\* success only on such a poll, and after 20 polls that found it closed the
\* call terminates the process it spawned and raises RuntimeError.
C32_BoundedLaunchWait == [](C32_State) /\ [][C32_Step]_vars

\* twenty polls failed, the spawned process was terminated and RuntimeError
\* was raised
C32_Witness ==
  /\ cpc = "idle"
  /\ polls = PollLimit
  /\ ret = "RuntimeError"
  /\ ops = <<"ensure_browser", "spawn", "terminate">>
  /\ process = "exited"

\* the models after the index the call started from that can be instantiated
LaterCreatable == {i \in (entry.index + 1)..(Len(models_to_try) - 1) : Creatable(i)}
Returned33 == mpc = "idle" /\ llm_calls >= 1
C33_State ==
  /\ \A i, j \in 1..Len(tried) : i < j => tried[i] < tried[j]
  /\ \A i \in 1..Len(tried) : tried[i] = i - 1
  /\ Returned33 =>
       /\ mret \in {"True", "False"}
       /\ mret = "True" <=> LaterCreatable # {}
       /\ mret = "True" =>
            /\ llm = current_model_index
            /\ llm \in LaterCreatable
            /\ \A i \in LaterCreatable : llm <= i
       /\ mret = "False" => llm = entry.llm
C33_Step ==
  /\ (llm_calls >= 1 /\ mret = "False" /\ mpc' = "idle") => mret' = "False"
  /\ mpc = "trying" => current_model_index' = current_model_index + 1

\* C33: models are tried in list order, each at most once; a call of
\* try_next_model returns True exactly when a model after the current index
\* can be instantiated, llm is then the instance of the first such model and
\* current_model_index its index; otherwise it returns False with llm
\* unchanged; after a False every later call returns False; every call
\* returns.
C33_ModelFallback == [](C33_State) /\ [][C33_Step]_vars /\ (mpc = "trying" ~> mpc = "idle")

\* the call skipped a model that could not be created and switched to the
\* one after it
C33_Witness ==
  /\ Returned33
  /\ mret = "True"
  /\ tried = <<0, 1, 2>>
  /\ llm = 2
  /\ ~Creatable(1)

\* read_comments has returned for post p
ReadDone(p) == Len(read_out) >= p
GotosOf(p) == SelectSeq(gotos, LAMBDA g : g.post = p)
PanelFails(p) == pages[p].short /\ ~pages[p].panel

\* C34 (as claimed): when the comments panel of a Short cannot be opened,
\* read_comments navigates a second time, to the watch URL of the same id.
C34_ShortsFallback ==
  \A p \in 1..Len(pages) :
    (ReadDone(p) /\ PanelFails(p)) =>
      (Len(GotosOf(p)) = 2 /\ GotosOf(p)[1].url = "shorts" /\ GotosOf(p)[2].url = "watch")

\* the comments read_comments has returned so far, over all posts
AllRead == UNION {{read_out[p][k] : k \in 1..Len(read_out[p])} : p \in 1..Len(read_out)}
DifferentComments(c, d) == c.post # d.post \/ c.body # d.body
SameThread(c, d) == c.post = d.post /\ c.thread = d.thread

\* C35 (as claimed): two different comments never have the same ledger id,
\* and a comment is skipped only after a like of that same comment.
C35_NoSharedLedgerId ==
  /\ \A c, d \in AllRead : DifferentComments(c, d) => c.id # d.id
  /\ \A j \in 1..Len(likes) :
       likes[j].ev = "skip" =>
         \E i \in 1..(j - 1) : likes[i].ev = "like" /\ SameThread(likes[i].comment, likes[j].comment)

\* C37 (as claimed): like_comment gets the position of the comment's own
\* thread on the page, and the last navigation before the call is the one
\* read_comments made for the comment's post.
C37_ActionOnIntendedComment ==
  \A j \in 1..Len(likes) :
    likes[j].ev = "like" =>
      /\ likes[j].hit = likes[j].comment.thread
      /\ likes[j].gotos >= 1
      /\ gotos[likes[j].gotos].post = likes[j].comment.post

\* a real run has printed its summary line
RealRunReported == pc = "idle" /\ ~dry_run /\ reported >= 0
LedgerGrowth == processed_comments \ startComments

\* C36: at the end of a real run the reported total is the number of provider
\* calls that returned True, and the number of comment ids the ledger holds at
\* the end that it did not hold when the run started.
C36_CountEqualsLedgerGrowth ==
  RealRunReported =>
    /\ reported = Cardinality(Successes(log))
    /\ reported = Cardinality(LedgerGrowth)

\* a run that liked two comments, skipped one and had one call return False
C36_Witness ==
  /\ RealRunReported
  /\ reported = 2
  /\ SomeCallFailed
  /\ \E i \in 1..Len(log) : log[i].ev = "skip"

\* C38: with actions_per_minute = N >= 1, action_times is in non-decreasing
\* time order, its first element is the oldest entry it holds, and it never
\* holds more than N + 1 entries.
C38_BoundedOrderedHistory ==
  (pc = "limiter" /\ rl.actions_per_minute >= 1) =>
    LET h == rl.action_times
    IN /\ \A i \in 1..Len(h) : \A k \in i..Len(h) : h[i] <= h[k]
       /\ \A i \in 1..Len(h) : h[1] <= h[i]
       /\ Len(h) <= rl.actions_per_minute + 1

\* a limiter of 2 per minute holding 3 entries, of which an older call's was pruned
C38_Witness ==
  /\ pc = "limiter"
  /\ rl.actions_per_minute = 2
  /\ Len(rl.action_times) = 3
  /\ Len(recorded) = 4

\* a step of the limiter that is a wait_if_needed call
IsWaitCall == pc = "limiter" /\ (rl' # rl \/ lastCall' # lastCall)
C39_Step ==
  IsWaitCall =>
    /\ rl'.err = "none"
    /\ \A i \in 1..Len(lastCall'.sleeps) : lastCall'.sleeps[i] \in Nat
    /\ recorded' = Append(recorded, now')
    /\ rl'.action_times = Append(Prune(rl.action_times, now), now')

\* C39 (as claimed): every wait_if_needed call, for every actions_per_minute
\* >= 0 and every history, returns after finite sleeps without raising and
\* appends exactly one timestamp to the history.
C39_WaitAlwaysReturns == [](pc = "limiter" => rl.err = "none") /\ [][C39_Step]_vars

====
